---- MODULE Spec2Model ----
(***************************************************************************)
(* Model of the xfuse read-only XFS driver: the leaf-shaped directory view *)
(* (Dir2Leaf::lookup / Dir2Leaf::next over byte-level directory data       *)
(* blocks) and the file-read core (File::read over extents and holes).     *)
(*                                                                         *)
(* Representation notes.                                                   *)
(*  - TLC integers are 32 bits wide, so a 64-bit readdir cookie is kept as *)
(*    its two bit fields [hi |-> bits 56..63, lo |-> bits 0..55]; the      *)
(*    casts `as u64` / `as i64` keep the bit pattern and are the identity  *)
(*    on this representation.                                              *)
(*  - A 32-bit hash is kept as the pair <<high 16 bits, low 16 bits>>.     *)
(*  - An inode number read from a block is kept as its 8 big-endian bytes. *)
(*  - A Rust panic (unwrap on Err, failed assert, slice out of range)      *)
(*    is the result [t |-> "Panic"]; it ends the process (crashed).        *)
(***************************************************************************)
EXTENDS Integers, Sequences, FiniteSets, TLC

VARIABLES
    sb,           \* the superblock geometry (immutable after mount)
    image,        \* the backing image, a sequence of bytes
    layout,       \* ghost: what the directory image was built from
    inodes,       \* inode number -> [di_mode, di_gen] as stored in the image
    entries,      \* Dir2Leaf.entries : Vec<Dir2Data>, here the block offsets
    leaf,         \* Dir2Leaf.leaf.ents : Vec<Dir2LeafEntry>
    block_cache,  \* Dir2Leaf.block_cache : Option<(usize, Vec<u8>)>
    full,         \* results of the enumeration started at cookie 0
    fullLast,     \* the result that ended it (an Err or a Panic), or NoRet
    rk,           \* the resumed enumeration starts from full[rk].cookie (0: none)
    res,          \* results of the resumed enumeration
    resLast,      \* the result that ended it, or NoRet
    lret,         \* the last call when it was a lookup: [name, r]
    crashed,      \* the process panicked
    file,         \* the regular-file view: [size, extents]
    rret,         \* the last File::read call: [offset, size, r]
    ck,           \* a cookie built from (idx, off) and decoded again
    build,        \* the build profile: "debug" checks integer overflow
    ga,           \* a leaf index, a hash and what get_address returned
    attr,         \* the attribute fork: what is on disk, and the views' state
    aret,         \* the last call into an attribute view
    blkpos,       \* a filesystem block and the byte offset a reader seeks to
    md,           \* an extent list, a directory block and what map_dblock did
    el,           \* an entry of some name length, measured and decoded
    rl            \* the loop of File::read over run lengths of full width

vars == <<sb, image, layout, inodes, entries, leaf, block_cache, full,
          fullLast, rk, res, resLast, lret, crashed, file, rret, ck, build,
                   ga, attr, aret, blkpos, md, el, rl>>

-----------------------------------------------------------------------------
(* Bounds of the model *)

\* data directory blocks of a generated directory
MaxBlocks == 2
\* entries and interior free regions laid out in one data block
MaxRegions == 3
\* log2 of the filesystem block size of the generated directory images
DirBlockLog == 7

-----------------------------------------------------------------------------
(* Program constants *)

ENOENT == 2
Dir3DataHdr_SIZE == 64
FREETAG == 65535
COOKIE_IDX_BITS == 8
XFS_DIR3_FT_UNKNOWN == 0
XFS_DIR3_FT_REG_FILE == 1
XFS_DIR3_FT_DIR == 2
XFS_DIR3_FT_CHRDEV == 3
XFS_DIR3_FT_BLKDEV == 4
XFS_DIR3_FT_FIFO == 5
XFS_DIR3_FT_SOCK == 6
XFS_DIR3_FT_SYMLINK == 7
XFS_DIR3_FT_WHT == 8
S_IFMT == 61440
S_IFREG == 32768
S_IFDIR == 16384
S_IFLNK == 40960

-----------------------------------------------------------------------------
(* Results *)

Panic == [t |-> "Panic"]
\* a panic with the message it prints
PanicMsg(m) == [t |-> "Panic", msg |-> m]
Err(e) == [t |-> "Err", errno |-> e]
NoRet == [t |-> "None"]

RECURSIVE Pow2(_)
Pow2(n) == IF n = 0 THEN 1 ELSE 2 * Pow2(n - 1)

-----------------------------------------------------------------------------
(* Primitive decoder: big-endian fixed-width reads from a byte slice.      *)
(* `raw` is the whole slice and `off` the 0-based position decoding starts *)
(* at, i.e. decode(&raw[off..]).                                           *)

decode_u8(raw, off) ==
    IF off >= 0 /\ off + 1 <= Len(raw)
    THEN [ok |-> TRUE, v |-> raw[off + 1]]
    ELSE [ok |-> FALSE, v |-> 0]

decode_u16(raw, off) ==
    IF off >= 0 /\ off + 2 <= Len(raw)
    THEN [ok |-> TRUE, v |-> raw[off + 1] * 256 + raw[off + 2]]
    ELSE [ok |-> FALSE, v |-> 0]

\* a u64 is kept as its 8 bytes
decode_u64(raw, off) ==
    IF off >= 0 /\ off + 8 <= Len(raw)
    THEN [ok |-> TRUE, v |-> SubSeq(raw, off + 1, off + 8)]
    ELSE [ok |-> FALSE, v |-> <<>>]

\* 4 - namelen as i8, in i8: the wrapped value, and whether it overflows
entry_pad_i8(namelen) ==
    LET asI8 == IF namelen >= 128 THEN namelen - 256 ELSE namelen
    IN  [v |-> ((4 - asI8 + 128) % 256) - 128, ovf |-> 4 - asI8 > 127]

\* (4 - namelen as i8).rem_euclid(8)
entry_pad(namelen) == entry_pad_i8(namelen).v % 8

\* impl Decode for Dir2DataEntry; consumed is the number of bytes decoded
decode_Dir2DataEntry(raw, off) ==
    LET bad == [ok |-> FALSE, inumber |-> <<>>, name |-> <<>>, ftype |-> 0,
                tag |-> 0, consumed |-> 0]
        ino == decode_u64(raw, off)
        nl  == decode_u8(raw, off + 8)
    IN  IF ~ino.ok \/ ~nl.ok THEN bad
        ELSE IF build = "debug" /\ entry_pad_i8(nl.v).ovf THEN bad
        ELSE LET n   == nl.v
                 ft  == decode_u8(raw, off + 9 + n)
                 pad == entry_pad(n)
                 tg  == decode_u16(raw, off + 9 + n + 1 + pad)
             IN  IF ~ft.ok \/ ~tg.ok THEN bad
                 ELSE [ok |-> TRUE, inumber |-> ino.v,
                       name |-> SubSeq(raw, off + 10, off + 9 + n),
                       ftype |-> ft.v, tag |-> tg.v,
                       consumed |-> 9 + n + 1 + pad + 2]

\* Dir2DataEntry::get_length
get_length(raw, off) ==
    LET nl == decode_u8(raw, off + 8)
    IN  IF ~nl.ok THEN [ok |-> FALSE, v |-> 0]
        ELSE [ok |-> TRUE, v |-> (((nl.v + 8 + 1 + 2) + 8 - 1) \div 8) * 8]

\* impl Decode for Dir2DataUnused; `length as usize - 6` underflows below 6
decode_Dir2DataUnused(raw, off) ==
    LET bad == [ok |-> FALSE, length |-> 0, tag |-> 0, consumed |-> 0]
        ft  == decode_u16(raw, off)
        ln  == decode_u16(raw, off + 2)
    IN  IF ~ft.ok \/ ~ln.ok THEN bad
        ELSE IF ln.v < 6 THEN bad
        ELSE LET tg == decode_u16(raw, off + ln.v - 2)
             IN  IF ~tg.ok THEN bad
                 ELSE [ok |-> TRUE, length |-> ln.v, tag |-> tg.v,
                       consumed |-> ln.v]

-----------------------------------------------------------------------------
(* utils.rs: get_file_type *)

get_file_type_Type(file_type) ==
    CASE file_type = XFS_DIR3_FT_REG_FILE -> [ok |-> TRUE, kind |-> "RegularFile", errno |-> 0]
      [] file_type = XFS_DIR3_FT_DIR      -> [ok |-> TRUE, kind |-> "Directory", errno |-> 0]
      [] file_type = XFS_DIR3_FT_SYMLINK  -> [ok |-> TRUE, kind |-> "Symlink", errno |-> 0]
      [] OTHER                            -> [ok |-> FALSE, kind |-> "", errno |-> ENOENT]

\* (file_mode as mode_t) & S_IFMT : the top four bits of the 16-bit mode
mode_fmt(file_mode) == (file_mode \div 4096) * 4096

get_file_type_Mode(file_mode) ==
    CASE mode_fmt(file_mode) = S_IFREG -> [ok |-> TRUE, kind |-> "RegularFile", errno |-> 0]
      [] mode_fmt(file_mode) = S_IFDIR -> [ok |-> TRUE, kind |-> "Directory", errno |-> 0]
      [] mode_fmt(file_mode) = S_IFLNK -> [ok |-> TRUE, kind |-> "Symlink", errno |-> 0]
      [] OTHER                         -> [ok |-> FALSE, kind |-> "", errno |-> ENOENT]

-----------------------------------------------------------------------------
(* Name hash (da_btree::hashname):                                         *)
(*   hash ^= rotate_left(byte, ((len - 1 - i) * 7) mod 32)                 *)
(* computed bit by bit; the result is <<high 16 bits, low 16 bits>>.       *)

Bit(v, i) == (v \div (2 ^ i)) % 2

\* bit p of rotate_left(b as u32, rot)
RolBit(b, rot, p) ==
    LET j == (p - rot) % 32
    IN  IF j < 8 THEN Bit(b, j) ELSE 0

RECURSIVE HashBitSum(_, _, _)
HashBitSum(name, i, p) ==
    IF i > Len(name) THEN 0
    ELSE RolBit(name[i], ((Len(name) - i) * 7) % 32, p)
         + HashBitSum(name, i + 1, p)

RECURSIVE BitsValue(_, _, _)
BitsValue(name, lo, n) ==
    IF n = 0 THEN 0
    ELSE (HashBitSum(name, 1, lo) % 2) + 2 * BitsValue(name, lo + 1, n - 1)

hashname(name) == <<BitsValue(name, 16, 16), BitsValue(name, 0, 16)>>

\* Ordering of XfsDahash values
HashLess(a, b) == a[1] < b[1] \/ (a[1] = b[1] /\ a[2] < b[2])

-----------------------------------------------------------------------------
(* The on-disk directory format, used to build the images the driver reads *)

Zeros(n) == [i \in 1..n |-> 0]
BE16(v) == <<(v \div 256) % 256, v % 256>>
BE64(v) == <<0, 0, 0, 0, (v \div 16777216) % 256, (v \div 65536) % 256,
             (v \div 256) % 256, v % 256>>

\* inumber | namelen | name | ftype | pad | tag, padded to 8 bytes
EntryBytes(ino, name, ftype, off) ==
    BE64(ino) \o <<Len(name)>> \o name \o <<ftype>>
    \o Zeros((4 - Len(name)) % 8) \o BE16(off)

\* freetag 0xFFFF | length | ... | tag
UnusedBytes(len, off) ==
    <<255, 255>> \o BE16(len) \o Zeros(len - 6) \o BE16(off)

\* the 64-byte data block header, magic XD3D
DataHdrBytes == <<88, 68, 51, 68>> \o Zeros(Dir3DataHdr_SIZE - 4)

RegionBytes(r) ==
    IF r.t = "ent" THEN EntryBytes(r.ino, r.name, r.ftype, r.off)
    ELSE UnusedBytes(r.len, r.off)

RECURSIVE RegionsBytes(_, _)
RegionsBytes(regions, i) ==
    IF i > Len(regions) THEN <<>>
    ELSE RegionBytes(regions[i]) \o RegionsBytes(regions, i + 1)

DataBlockBytes(blk) == DataHdrBytes \o RegionsBytes(blk.regions, 1)

RECURSIVE BlocksBytes(_, _)
BlocksBytes(blocks, j) ==
    IF j > Len(blocks) THEN <<>>
    ELSE DataBlockBytes(blocks[j]) \o BlocksBytes(blocks, j + 1)

\* fs block 0 is the superblock, data block j is fs block j, then the leaf
ImageOf(lay, blocksize) ==
    Zeros(blocksize) \o BlocksBytes(lay.blocks, 1) \o Zeros(blocksize)

\* di_mode of the inode behind an entry of the given ftype: the S_IF* type
\* bits (fifo 0o010000, chr 0o020000, blk 0o060000, sock 0o140000) and
\* permission bits
ModeOf(ftype) ==
    CASE ftype = XFS_DIR3_FT_REG_FILE -> S_IFREG + 420
      [] ftype = XFS_DIR3_FT_DIR      -> S_IFDIR + 493
      [] ftype = XFS_DIR3_FT_SYMLINK  -> S_IFLNK + 511
      [] ftype = XFS_DIR3_FT_FIFO     -> 4096 + 420
      [] ftype = XFS_DIR3_FT_CHRDEV   -> 8192 + 420
      [] ftype = XFS_DIR3_FT_BLKDEV   -> 24576 + 420
      [] ftype = XFS_DIR3_FT_SOCK     -> 49152 + 420
      [] OTHER                        -> 0

\* the k-th name of a directory: k-th letter, then len - 1 times 'x'; the
\* names of 2 bytes are the two that hash to 0x101
NameOf(k, len) ==
    IF len = 2 THEN (IF k % 2 = 1 THEN <<2, 1>> ELSE <<3, 129>>)
    ELSE <<96 + k>> \o [i \in 1..(len - 1) |-> 120]
InoOf(k) == 128 + k

\* Lay a pattern of "e" (entry) and "f" (16-byte free region) out from
\* byte `off`; k counts the entries laid out before; the rest of the block
\* is one free region.
RECURSIVE BuildRegions(_, _, _, _, _, _, _)
BuildRegions(pat, i, off, k, lens, ftypes, dblksize) ==
    IF i > Len(pat)
    THEN IF off < dblksize
         THEN <<[t |-> "free", off |-> off, len |-> dblksize - off]>>
         ELSE <<>>
    ELSE IF pat[i] = "e"
    THEN LET nm == NameOf(k + 1, lens[k + 1])
             ln == Len(EntryBytes(0, nm, 0, 0))
         IN  <<[t |-> "ent", off |-> off, len |-> ln, name |-> nm,
                ino |-> InoOf(k + 1), ftype |-> ftypes[k + 1]]>>
             \o BuildRegions(pat, i + 1, off + ln, k + 1, lens, ftypes, dblksize)
    ELSE <<[t |-> "free", off |-> off, len |-> 16]>>
         \o BuildRegions(pat, i + 1, off + 16, k, lens, ftypes, dblksize)

CountE(pat) == Cardinality({i \in 1..Len(pat) : pat[i] = "e"})

RECURSIVE EntriesBefore(_, _)
EntriesBefore(pats, j) ==
    IF j <= 1 THEN 0 ELSE CountE(pats[j - 1]) + EntriesBefore(pats, j - 1)

\* pats: one pattern per data block; dbnos: the directory-block number of
\* each data block; lens, ftypes: per entry, in directory order
LayoutOf(pats, dbnos, lens, ftypes, dblksize) ==
    [blocks |-> [j \in 1..Len(pats) |->
        [dbno |-> dbnos[j],
         regions |-> BuildRegions(pats[j], 1, Dir3DataHdr_SIZE,
                                  EntriesBefore(pats, j), lens, ftypes,
                                  dblksize)]]]

RegionsEnd(regions) ==
    IF Len(regions) = 0 THEN Dir3DataHdr_SIZE
    ELSE regions[Len(regions)].off + regions[Len(regions)].len

LayoutFits(lay, dblksize) ==
    \A j \in 1..Len(lay.blocks) : RegionsEnd(lay.blocks[j].regions) = dblksize

\* the live entries of the directory, in (block index, offset) order, each
\* with the 0-based index of its block
RECURSIVE LiveOfBlock(_, _, _)
LiveOfBlock(regions, i, idx) ==
    IF i > Len(regions) THEN <<>>
    ELSE (IF regions[i].t = "ent"
          THEN <<[idx |-> idx, off |-> regions[i].off, name |-> regions[i].name,
                  ino |-> regions[i].ino, ftype |-> regions[i].ftype]>>
          ELSE <<>>)
         \o LiveOfBlock(regions, i + 1, idx)

RECURSIVE LiveFrom(_, _)
LiveFrom(lay, j) ==
    IF j > Len(lay.blocks) THEN <<>>
    ELSE LiveOfBlock(lay.blocks[j].regions, 1, j - 1) \o LiveFrom(lay, j + 1)

LiveEntries(lay) == LiveFrom(lay, 1)

InodesOf(lay) ==
    LET live == LiveEntries(lay)
    IN  [ino \in {live[i].ino : i \in 1..Len(live)} |->
            LET e == CHOOSE i \in 1..Len(live) : live[i].ino = ino
            IN  [di_mode |-> ModeOf(live[e].ftype), di_gen |-> 1]]

\* data fork extents: the data blocks (one extent per run of consecutive
\* directory-block numbers), then the leaf block far up the address space
RECURSIVE DataExtents(_, _)
DataExtents(lay, j) ==
    IF j > Len(lay.blocks) THEN <<>>
    ELSE LET rest == DataExtents(lay, j + 1)
             me   == [br_startoff |-> lay.blocks[j].dbno, br_startblock |-> j,
                      br_blockcount |-> 1]
         IN  IF Len(rest) > 0 /\ rest[1].br_startoff = me.br_startoff + 1
             THEN <<[br_startoff |-> me.br_startoff, br_startblock |-> j,
                     br_blockcount |-> rest[1].br_blockcount + 1]>>
                  \o Tail(rest)
             ELSE <<me>> \o rest

BmxOf(lay) ==
    DataExtents(lay, 1)
    \o <<[br_startoff |-> 8388608, br_startblock |-> Len(lay.blocks) + 1,
          br_blockcount |-> 1]>>

\* the leaf index: one (hashval, address) per live entry, ascending by
\* hashval; address = byte offset in the directory's data space / 8
RECURSIVE InsertEnt(_, _)
InsertEnt(sorted, e) ==
    IF Len(sorted) = 0 THEN <<e>>
    ELSE IF HashLess(e.hashval, Head(sorted).hashval) THEN <<e>> \o sorted
    ELSE <<Head(sorted)>> \o InsertEnt(Tail(sorted), e)

RECURSIVE SortEnts(_, _)
SortEnts(list, i) ==
    IF i = 0 THEN <<>> ELSE InsertEnt(SortEnts(list, i - 1), list[i])

LeafEntsOf(lay, dblksize) ==
    LET live == LiveEntries(lay)
        list == [i \in 1..Len(live) |->
                   [hashval |-> hashname(live[i].name),
                    address |-> (lay.blocks[live[i].idx + 1].dbno * dblksize
                                 + live[i].off) \div 8]]
    IN  SortEnts(list, Len(list))

-----------------------------------------------------------------------------
(* Dir2Leaf construction *)

\* Dir2Data::from : the byte offset of a data block is start_block * blocksize
Dir2Data_from(s, start_block) == [offset |-> start_block * s.sb_blocksize]

\* for i in (0..br_blockcount).step_by(1 << sb_dirblklog)
RecordEntries(s, record) ==
    LET step == 2 ^ s.sb_dirblklog
        n    == (record.br_blockcount + step - 1) \div step
    IN  [m \in 1..n |-> Dir2Data_from(s, record.br_startblock + (m - 1) * step)]

\* Dir2Leaf::from : every extent but the last one holds data blocks
RECURSIVE Dir2Leaf_entries(_, _, _)
Dir2Leaf_entries(s, bmx, i) ==
    IF i > Len(bmx) - 1 THEN <<>>
    ELSE RecordEntries(s, bmx[i]) \o Dir2Leaf_entries(s, bmx, i + 1)

dblksize == sb.sb_blocksize * (2 ^ sb.sb_dirblklog)

\* None; trace is a ghost: for every refill check of the last call, the
\* block it needed, the block the cache held, and whether the image was read
NoCache == [some |-> FALSE, idx |-> 0, raw |-> <<>>, trace |-> <<>>]

\* seek(SeekFrom::Start(off)) then read_exact of n bytes
read_exact(off, n) ==
    IF off + n <= Len(image)
    THEN [ok |-> TRUE, raw |-> SubSeq(image, off + 1, off + n)]
    ELSE [ok |-> FALSE, raw |-> <<>>]

\* the cached block is reused whatever its index
cache_hit_any(cache, idx) == cache.some

\* the cached block is reused: !(cache.is_none() || cache.0 != idx)
cache_hit(cache, idx) == cache.some /\ cache.idx = idx

\* *cache_guard = Some((idx, raw))
cache_store_keep_idx(cache, idx, raw) ==
    [some |-> TRUE, idx |-> IF cache.some THEN cache.idx ELSE idx, raw |-> raw,
     trace |-> cache.trace]
cache_store(cache, idx, raw) ==
    [some |-> TRUE, idx |-> idx, raw |-> raw, trace |-> cache.trace]

\* the block_cache refill shared by lookup and next
load_block(cache, idx) ==
    LET held == IF cache.some THEN cache.idx ELSE 0 - 1
        seen(rd) == [cache EXCEPT !.trace =
                       Append(@, [need |-> idx, held |-> held, read |-> rd])]
    IN  IF cache_hit(cache, idx) THEN [ok |-> TRUE, cache |-> seen(FALSE)]
        ELSE LET r == read_exact(entries[idx + 1].offset, dblksize)
             IN  IF r.ok
                 THEN [ok |-> TRUE, cache |-> cache_store(seen(TRUE), idx, r.raw)]
                 ELSE [ok |-> FALSE, cache |-> seen(TRUE)]

-----------------------------------------------------------------------------
(* Dir2Leaf::next *)

Cookie0 == [hi |-> 0, lo |-> 0]

\* ((idx as u64) << (64 - 8)) | (entry.tag as u64) : the shift keeps the low
\* 8 bits of idx
make_cookie(idx, tag) == [hi |-> idx % (2 ^ COOKIE_IDX_BITS), lo |-> tag]

\* (offset >> (64 - 8)) as usize
cookie_idx(cookie) == cookie.hi
\* (offset & ((1 << (64 - 8)) - 1)) as usize
cookie_offset(cookie) == cookie.lo

\* return Ok((entry.inumber, tag as i64, kind, name)); idx and off are ghost
\* fields: where the returned entry was decoded
next_return_following(entry, kind, idx, offset) ==
    [t |-> "Ok", ino |-> entry.inumber,
     cookie |-> make_cookie(idx, offset + entry.consumed),
     kind |-> kind, name |-> entry.name, idx |-> idx, off |-> offset]
next_return(entry, kind, idx, offset) ==
    [t |-> "Ok", ino |-> entry.inumber, cookie |-> make_cookie(idx, entry.tag),
     kind |-> kind, name |-> entry.name, idx |-> idx, off |-> offset]

\* the inner loop `while offset < raw.len()`
RECURSIVE next_scan(_, _, _, _)
next_scan(raw, idx, offset, nxt) ==
    IF ~(offset < Len(raw)) THEN [t |-> "End", nxt |-> nxt]
    ELSE LET freetag == decode_u16(raw, offset) IN
    IF ~freetag.ok THEN Panic
    ELSE IF freetag.v = FREETAG
    THEN LET u == decode_Dir2DataUnused(raw, offset)
         IN  IF ~u.ok THEN Panic
             ELSE next_scan(raw, idx, offset + u.consumed, nxt)
    ELSE IF nxt
    THEN LET entry == decode_Dir2DataEntry(raw, offset)
         IN  IF ~entry.ok THEN Panic
             ELSE LET kind == get_file_type_Type(entry.ftype)
                  IN  IF ~kind.ok THEN Err(kind.errno)
                      ELSE next_return(entry, kind.kind, idx, offset)
    ELSE LET length == get_length(raw, offset)
         IN  IF ~length.ok THEN Panic
             ELSE next_scan(raw, idx, offset + length.v, TRUE)

\* the outer loop over the data blocks
RECURSIVE next_blocks(_, _, _, _)
next_blocks(cache, idx, offset, nxt) ==
    LET off == IF offset = 0 THEN Dir3DataHdr_SIZE ELSE offset
        ld  == load_block(cache, idx)
    IN  IF ~ld.ok THEN [ret |-> Panic, cache |-> ld.cache]
        ELSE LET r == next_scan(ld.cache.raw, idx, off, nxt)
             IN  IF r.t # "End" THEN [ret |-> r, cache |-> ld.cache]
                 ELSE IF idx + 1 >= Len(entries)
                 THEN [ret |-> Err(ENOENT), cache |-> ld.cache]
                 ELSE next_blocks(ld.cache, idx + 1, 0, r.nxt)

next(cache, cookie) ==
    LET idx == cookie_idx(cookie)
    IN  IF idx >= Len(entries) THEN [ret |-> Err(ENOENT), cache |-> cache]
        ELSE next_blocks(cache, idx, cookie_offset(cookie),
                         cookie_offset(cookie) = 0)

-----------------------------------------------------------------------------
(* Dir2Leaf::lookup *)

\* Dir2LeafDisk::get_address(hash, collision_resolver): the
\* collision_resolver-th leaf entry among those whose hashval equals hash
get_address_cr(ents, hash, collision_resolver) ==
    LET first == Cardinality({i \in 1..Len(ents) : HashLess(ents[i].hashval, hash)}) + 1
        i     == first + collision_resolver
    IN  IF i <= Len(ents) /\ ents[i].hashval = hash
        THEN [ok |-> TRUE, address |-> ents[i].address]
        ELSE [ok |-> FALSE, address |-> 0]

\* the inode number held in 8 big-endian bytes, when it is below 2^31
InoValue(b) ==
    IF b[1] = 0 /\ b[2] = 0 /\ b[3] = 0 /\ b[4] = 0 /\ b[5] < 128
    THEN ((b[5] * 256 + b[6]) * 256 + b[7]) * 256 + b[8]
    ELSE -1

\* Dinode::from(inumber) followed by di_core.stat(inumber): the file type
\* is generated from di_mode
stat(inumber) ==
    LET ino == InoValue(inumber)
    IN  IF ino \notin DOMAIN inodes THEN Panic
        ELSE LET kind == get_file_type_Mode(inodes[ino].di_mode)
             IN  IF ~kind.ok THEN Err(kind.errno)
                 ELSE [t |-> "Ok", ino |-> inumber, kind |-> kind.kind,
                       gen |-> inodes[ino].di_gen]

\* entry.name == name
name_matches(entry_name, name) == entry_name = name

\* idx >= self.entries.len()
lookup_idx_out(idx) == idx >= Len(entries)

RECURSIVE lookup_loop(_, _, _, _)
lookup_loop(cache, hash, name, collision_resolver) ==
    LET a == get_address_cr(leaf, hash, collision_resolver)
    IN  IF ~a.ok THEN [ret |-> Err(ENOENT), cache |-> cache]
        ELSE LET address == a.address * 8
                 idx     == address \div dblksize
                 addr    == address % dblksize
             IN  IF lookup_idx_out(idx) THEN [ret |-> Err(ENOENT), cache |-> cache]
                 ELSE LET ld == load_block(cache, idx)
                      IN  IF ~ld.ok THEN [ret |-> Panic, cache |-> ld.cache]
                          ELSE LET entry == decode_Dir2DataEntry(ld.cache.raw, addr)
                               IN  IF ~entry.ok THEN [ret |-> Panic, cache |-> ld.cache]
                                   ELSE IF name_matches(entry.name, name)
                                   THEN [ret |-> stat(entry.inumber), cache |-> ld.cache]
                                   ELSE lookup_loop(ld.cache, hash, name,
                                                    collision_resolver + 1)

lookup(cache, name) == lookup_loop(cache, hashname(name), name, 0)

-----------------------------------------------------------------------------
(* The directories the model mounts *)

MaxEntries == MaxBlocks * MaxRegions
dirBlockSize == 2 ^ DirBlockLog

PatternOK(p) ==
    /\ \E i \in 1..Len(p) : p[i] = "e"
    /\ p[Len(p)] = "e"
    /\ \A i \in 1..(Len(p) - 1) : ~(p[i] = "f" /\ p[i + 1] = "f")

Patterns ==
    UNION {{p \in [1..n -> {"e", "f"}] : PatternOK(p)} : n \in 1..MaxRegions}

AltLens == [k \in 1..MaxEntries |-> IF k % 2 = 1 THEN 1 ELSE 6]
AllReg == [k \in 1..MaxEntries |-> XFS_DIR3_FT_REG_FILE]
Consecutive(n) == [j \in 1..n |-> j - 1]

\* any pattern in the first block, any one pattern in all the blocks after
\* it; regular files, names of 1 and 6 bytes
BlockPatterns(n, p, q) == [j \in 1..n |-> IF j = 1 THEN p ELSE q]
FamilyPatterns ==
    {[pats |-> BlockPatterns(n, p, q), dbnos |-> Consecutive(n), lens |-> AltLens,
      ftypes |-> AllReg] :
        n \in 1..MaxBlocks, p \in Patterns, q \in Patterns}

\* one entry of another file type
FamilyTypes ==
    {[pats |-> <<<<"e", "e">>, <<"e">>>>, dbnos |-> <<0, 1>>, lens |-> AltLens,
      ftypes |-> [AllReg EXCEPT ![k] = t]] :
        k \in 1..3,
        t \in {XFS_DIR3_FT_DIR, XFS_DIR3_FT_SYMLINK, XFS_DIR3_FT_FIFO,
               XFS_DIR3_FT_CHRDEV, XFS_DIR3_FT_SOCK}}

\* a freed data block in the middle: directory-block numbers 0 and 2
FamilyGap ==
    {[pats |-> ps, dbnos |-> <<0, 2>>, lens |-> AltLens, ftypes |-> AllReg] :
        ps \in [1..2 -> {<<"e">>, <<"e", "e">>}]}

\* names of 4 and of 5 bytes
FamilyNameLen ==
    {[pats |-> ps, dbnos |-> Consecutive(Len(ps)),
      lens |-> [k \in 1..MaxEntries |-> n], ftypes |-> AllReg] :
        ps \in UNION {[1..b -> {<<"e">>, <<"e", "e">>, <<"e", "f", "e">>}] : b \in 1..2},
        n \in {4, 5}}

\* two names with the same hash (entries 1 and 2), in one block, in
\* consecutive blocks and around a freed block
CollideLens == [k \in 1..MaxEntries |-> IF k <= 2 THEN 2 ELSE 1]
FamilyCollide ==
    {[pats |-> d.ps, dbnos |-> d.nos, lens |-> CollideLens, ftypes |-> AllReg] :
        d \in {[ps |-> <<<<"e">>>>, nos |-> <<0>>],
               [ps |-> <<<<"e", "e">>>>, nos |-> <<0>>],
               [ps |-> <<<<"e", "f", "e">>>>, nos |-> <<0>>],
               [ps |-> <<<<"e">>, <<"e">>>>, nos |-> <<0, 1>>],
               [ps |-> <<<<"e">>, <<"e", "e">>>>, nos |-> <<0, 1>>],
               [ps |-> <<<<"e">>, <<"e">>>>, nos |-> <<0, 2>>]}}

DirDescs ==
    FamilyPatterns \cup FamilyTypes \cup FamilyGap \cup FamilyNameLen
    \cup FamilyCollide

DirSb == [sb_blocksize |-> dirBlockSize, sb_blocklog |-> DirBlockLog,
          sb_dirblklog |-> 0]

IdleFile == [size |-> 0, extents |-> <<>>]

Init ==
    \E d \in DirDescs :
        LET lay == LayoutOf(d.pats, d.dbnos, d.lens, d.ftypes, dirBlockSize)
        IN  /\ LayoutFits(lay, dirBlockSize)
            /\ sb = DirSb
            /\ layout = lay
            /\ image = ImageOf(lay, dirBlockSize)
            /\ inodes = InodesOf(lay)
            /\ entries = Dir2Leaf_entries(DirSb, BmxOf(lay), 1)
            /\ leaf = LeafEntsOf(lay, dirBlockSize)
            /\ block_cache = NoCache
            /\ full = <<>>
            /\ fullLast = NoRet
            /\ rk = 0
            /\ res = <<>>
            /\ resLast = NoRet
            /\ lret = NoRet
            /\ crashed = FALSE
            /\ rl = NoRet
            /\ el = NoRet
            /\ file = IdleFile
            /\ rret = NoRet
            /\ ck = NoRet
            /\ build = "debug"
            /\ ga = NoRet
            /\ attr = NoRet
            /\ aret = NoRet
            /\ blkpos = NoRet
            /\ md = NoRet

-----------------------------------------------------------------------------
(* The dispatcher's calls into the directory view *)

\* readdir continued from cookie 0
FullStep ==
    /\ ~crashed
    /\ fullLast = NoRet
    /\ LET c == IF full = <<>> THEN Cookie0 ELSE full[Len(full)].cookie
           r == next([block_cache EXCEPT !.trace = <<>>], c)
       IN  /\ block_cache' = r.cache
           /\ crashed' = (r.ret.t = "Panic")
           /\ IF r.ret.t = "Ok"
              THEN full' = Append(full, r.ret) /\ fullLast' = fullLast
              ELSE full' = full /\ fullLast' = r.ret
    /\ lret' = NoRet
    /\ UNCHANGED <<sb, image, layout, inodes, entries, leaf, rk, res, resLast,
                   file, rret, ck, build,
                   ga, attr, aret, blkpos, md, el, rl>>

\* a second readdir stream, opened once the first one has ended, at a cookie
\* the first one returned
ResumeStart(k) ==
    /\ ~crashed
    /\ fullLast # NoRet
    /\ rk = 0
    /\ k \in 1..Len(full)
    /\ rk' = k
    /\ UNCHANGED <<sb, image, layout, inodes, entries, leaf, block_cache, full,
                   fullLast, res, resLast, lret, crashed, file, rret, ck, build,
                   ga, attr, aret, blkpos, md, el, rl>>

ResumeStep ==
    /\ ~crashed
    /\ rk # 0
    /\ resLast = NoRet
    /\ LET c == IF res = <<>> THEN full[rk].cookie ELSE res[Len(res)].cookie
           r == next([block_cache EXCEPT !.trace = <<>>], c)
       IN  /\ block_cache' = r.cache
           /\ crashed' = (r.ret.t = "Panic")
           /\ IF r.ret.t = "Ok"
              THEN res' = Append(res, r.ret) /\ resLast' = resLast
              ELSE res' = res /\ resLast' = r.ret
    /\ lret' = NoRet
    /\ UNCHANGED <<sb, image, layout, inodes, entries, leaf, full, fullLast, rk,
                   file, rret, ck, build,
                   ga, attr, aret, blkpos, md, el, rl>>

\* names the dispatcher looks up: the first and the last stored name and one
\* that is absent
AbsentName == <<122>>
\* a name that is stored nowhere and hashes to 0x101 as well
CollidingAbsentName == <<1, 130, 1>>
LookupNames ==
    LET live == LiveEntries(layout)
    IN  {live[i].name : i \in {1, Len(live)}} \cup {AbsentName}
        \cup (IF \E i \in 1..Len(live) : Len(live[i].name) = 2
              THEN {live[i].name : i \in 1..Len(live)} \cup {CollidingAbsentName}
              ELSE {})

Lookup(name) ==
    /\ ~crashed
    /\ LET r == lookup([block_cache EXCEPT !.trace = <<>>], name)
       IN  /\ block_cache' = r.cache
           /\ crashed' = (r.ret.t = "Panic")
           /\ lret' = [name |-> name, r |-> r.ret]
    /\ UNCHANGED <<sb, image, layout, inodes, entries, leaf, full, fullLast, rk,
                   res, resLast, file, rret, ck, build,
                   ga, attr, aret, blkpos, md, el, rl>>

Next ==
    \/ FullStep
    \/ \E k \in 1..MaxEntries : ResumeStart(k)
    \/ ResumeStep
    \/ \E name \in LookupNames : Lookup(name)

Spec == Init /\ [][Next]_vars

-----------------------------------------------------------------------------
(* The readdir cookie, from the index and tag it is built from to the index *)
(* and offset the next call resumes at                                      *)

\* the largest data-block index a cookie is built for
MaxCookieIdx == 257

CookieOffsets == {Dir3DataHdr_SIZE, Dir3DataHdr_SIZE + 16, 4080, 65528}

DirIdle ==
    /\ layout = [blocks |-> <<>>]
    /\ inodes = <<>>
    /\ entries = <<>>
    /\ leaf = <<>>
    /\ block_cache = NoCache
    /\ full = <<>>
    /\ fullLast = NoRet
    /\ rk = 0
    /\ res = <<>>
    /\ resLast = NoRet
    /\ lret = NoRet

InitCookie ==
    /\ DirIdle
    /\ sb = DirSb
    /\ image = <<>>
    /\ crashed = FALSE
    /\ rl = NoRet
    /\ el = NoRet
    /\ file = IdleFile
    /\ rret = NoRet
    /\ build = "release"
    /\ ga = NoRet
    /\ attr = NoRet
    /\ aret = NoRet
    /\ blkpos = NoRet
    /\ md = NoRet
    /\ ck \in {[st |-> "entry", idx |-> i, off |-> o, cookie |-> Cookie0,
                didx |-> 0, doff |-> 0] : i \in 0..MaxCookieIdx, o \in CookieOffsets}

\* next returns the entry at (idx, off) with its cookie (dir3_leaf.rs 177)
CookieBuild ==
    /\ ck.st = "entry"
    /\ ck' = [ck EXCEPT !.st = "returned", !.cookie = make_cookie(ck.idx, ck.off)]
    /\ UNCHANGED <<sb, image, layout, inodes, entries, leaf, block_cache, full,
                   fullLast, rk, res, resLast, lret, crashed, file, rret, build,
                   ga, attr, aret, blkpos, md, el, rl>>

\* a later next call splits the cookie (dir3_leaf.rs 139, 145)
CookieDecode ==
    /\ ck.st = "returned"
    /\ ck' = [ck EXCEPT !.st = "resumed", !.didx = cookie_idx(ck.cookie),
                        !.doff = cookie_offset(ck.cookie)]
    /\ UNCHANGED <<sb, image, layout, inodes, entries, leaf, block_cache, full,
                   fullLast, rk, res, resLast, lret, crashed, file, rret, build,
                   ga, attr, aret, blkpos, md, el, rl>>

NextCookie == CookieBuild \/ CookieDecode

SpecCookie == InitCookie /\ [][NextCookie]_vars

-----------------------------------------------------------------------------
(* File::read                                                              *)
(*                                                                         *)
(* A u64 is kept as a TLC integer in two's complement style: n >= 0 is n   *)
(* and n < 0 is 2^64 + n, so u64::MAX is -1. Values between 2^31 and       *)
(* 2^64 - 2^31 do not occur in the model.                                  *)

\* log2 of the filesystem block size of the generated file images
FileBlockLog == 2
\* logical blocks a generated file spans
MaxFileBlocks == 4
\* extents of a generated file
MaxExtents == 2
\* allocation group geometry of the generated file images
FileAgBlkLog == 3
FileAgBlocks == 6

U64_MAX == 0 - 1

\* a < b as u64
u64_less(a, b) ==
    IF (a >= 0) = (b >= 0) THEN a < b ELSE a >= 0

u64_min(a, b) == IF u64_less(b, a) THEN b ELSE a

\* a - b in u64, b small; ovf: the subtraction underflowed
u64_sub(a, b) == [v |-> a - b, ovf |-> u64_less(a, b)]

\* a + b in u64, a small; ovf: the sum left 64 bits
u64_add(a, b) == [v |-> a + b, ovf |-> b < 0 /\ a + b >= 0]

\* v << s in u64: bits shifted out are dropped
u64_shl(v, s) == v * (2 ^ s)

\* Sb::fsb_to_offset: ag_index * agblocks * blocksize + ag_offset * blocksize
fsb_to_offset(fsb) ==
    ((fsb \div (2 ^ sb.sb_agblklog)) * sb.sb_agblocks
     + (fsb % (2 ^ sb.sb_agblklog))) * sb.sb_blocksize

\* File::get_extent over a sorted extent list: (Option<fsblock>, run length)
get_extent(extents, block) ==
    LET i == Cardinality({j \in 1..Len(extents) : extents[j].br_startoff <= block})
    IN  IF i = 0 THEN [some |-> FALSE, blk |-> 0, blocks |-> 1]
        ELSE IF block < extents[i].br_startoff + extents[i].br_blockcount
        THEN [some |-> TRUE,
              blk |-> extents[i].br_startblock + (block - extents[i].br_startoff),
              blocks |-> extents[i].br_blockcount - (block - extents[i].br_startoff)]
        ELSE IF i < Len(extents)
        THEN [some |-> FALSE, blk |-> 0, blocks |-> extents[i + 1].br_startoff - block]
        ELSE [some |-> FALSE, blk |-> 0, blocks |-> U64_MAX]

\* z rounded up to whole blocks
z_round_up(z) ==
    LET low == z % (2 ^ sb.sb_blocklog)
    IN  IF low > 0 THEN z + sb.sb_blocksize - low ELSE z

\* SeekFrom::Start(sb.fsb_to_offset(blk) + u64::from(block_offset))
read_seek_pos_flat(blk, block_offset) == blk * sb.sb_blocksize + block_offset
read_seek_pos(blk, block_offset) == fsb_to_offset(blk) + block_offset

\* logical_block += blocks
read_advance(logical_block, blocks) == u64_add(logical_block, blocks)

\* data after one loop iteration: resize to oldlen + z_round_up with zeros,
\* and for a mapped extent read_exact into the new tail, then resize to
\* oldlen + z
read_segment(data, some, pos, z) ==
    IF some
    THEN LET r == read_exact(pos, z_round_up(z))
         IN  IF ~r.ok THEN [ok |-> FALSE, data |-> data]
             ELSE [ok |-> TRUE, data |-> data \o SubSeq(r.raw, 1, z)]
    ELSE [ok |-> TRUE, data |-> data \o Zeros(z_round_up(z))]

RECURSIVE read_loop(_, _, _, _)
read_loop(data, logical_block, block_offset, remaining_size) ==
    IF ~(remaining_size > 0) THEN [t |-> "Ok", data |-> data]
    ELSE LET ext == get_extent(file.extents, logical_block)
             run == u64_sub(u64_shl(ext.blocks, sb.sb_blocklog), block_offset)
         IN  IF run.ovf /\ build = "debug"
             THEN PanicMsg("attempt to subtract with overflow")
             ELSE LET z   == u64_min(remaining_size, run.v)
                      seg == read_segment(data, ext.some,
                                          read_seek_pos(ext.blk, block_offset), z)
                      lb  == read_advance(logical_block, ext.blocks)
                  IN  IF ~seg.ok THEN Panic
                      ELSE IF lb.ovf /\ build = "debug"
                      THEN PanicMsg("attempt to add with overflow")
                      ELSE read_loop(seg.data, lb.v, 0, remaining_size - z)

read(offset, size) ==
    IF offset % sb.sb_blocksize # 0 THEN Panic
    ELSE IF file.size - offset < 0 THEN Panic
    ELSE read_loop(<<>>, offset \div (2 ^ sb.sb_blocklog),
                   offset % (2 ^ sb.sb_blocklog),
                   u64_min(size, file.size - offset))

-----------------------------------------------------------------------------
(* The files the model mounts *)

fileBlockSize == 2 ^ FileBlockLog

FileSb == [sb_blocksize |-> fileBlockSize, sb_blocklog |-> FileBlockLog,
           sb_dirblklog |-> 0, sb_agblklog |-> FileAgBlkLog,
           sb_agblocks |-> FileAgBlocks]

\* two allocation groups; byte a of the image holds a % 255 + 1, never 0
FileImage == [a \in 1..(2 * FileAgBlocks * fileBlockSize) |-> ((a - 1) % 255) + 1]

\* the i-th extent of a file starts in AG 1 for i = 1, in AG 0 after that
PhysStart(i) == IF i = 1 THEN 2 ^ FileAgBlkLog + 1 ELSE 2 * i - 3

Extent(i, off, cnt) ==
    [br_startoff |-> off, br_startblock |-> PhysStart(i), br_blockcount |-> cnt]

\* extent lists sorted by br_startoff, ranges not overlapping
ExtentLists ==
    UNION {{[i \in 1..n |-> Extent(i, offs[i], cnts[i])] :
              offs \in {o \in [1..n -> 0..(MaxFileBlocks - 1)] :
                          \A i \in 1..(n - 1) : o[i] < o[i + 1]},
              cnts \in [1..n -> 1..2]} : n \in 0..MaxExtents}

ExtentsOK(x) ==
    \A i \in 1..(Len(x) - 1) :
        x[i].br_startoff + x[i].br_blockcount <= x[i + 1].br_startoff

FileSizes == {k * fileBlockSize + d : k \in 0..MaxFileBlocks, d \in {0, 1}}
ReadOffsets == {k * fileBlockSize : k \in 0..MaxFileBlocks} \cup {1}
ReadSizes == {1, fileBlockSize, fileBlockSize + 2, MaxFileBlocks * fileBlockSize}

InitFile ==
    /\ DirIdle
    /\ sb = FileSb
    /\ image = FileImage
    /\ crashed = FALSE
    /\ rl = NoRet
    /\ el = NoRet
    /\ ck = NoRet
    /\ rret = NoRet
    /\ build \in {"debug", "release"}
    /\ ga = NoRet
    /\ attr = NoRet
    /\ aret = NoRet
    /\ blkpos = NoRet
    /\ md = NoRet
    /\ \E x \in ExtentLists, sz \in FileSizes :
          /\ ExtentsOK(x)
          /\ file = [size |-> sz, extents |-> x]

\* the dispatcher's read(ino, offset, size)
Read(offset, size) ==
    /\ ~crashed
    /\ LET r == read(offset, size)
       IN  /\ rret' = [offset |-> offset, size |-> size, r |-> r]
           /\ crashed' = (r.t = "Panic")
    /\ UNCHANGED <<sb, image, layout, inodes, entries, leaf, block_cache, full,
                   fullLast, rk, res, resLast, lret, file, ck, build,
                   ga, attr, aret, blkpos, md, el, rl>>

NextFile == \E offset \in ReadOffsets, size \in ReadSizes : Read(offset, size)

SpecFile == InitFile /\ [][NextFile]_vars

-----------------------------------------------------------------------------
(* Dir2LeafDisk::get_address and Dir2LeafNDisk::get_address (same body)    *)

\* entries of a generated leaf index
MaxEnts == 3
\* hash values of a generated leaf index are 1..MaxHash
MaxHash == 3

\* the loop `while low <= high` of the binary search
RECURSIVE get_address_loop(_, _, _, _)
get_address_loop(ents, hash, low, high) ==
    IF ~(low <= high) THEN Err(ENOENT)
    ELSE LET mid == low + ((high - low) \div 2)
         IN  IF mid + 1 \notin DOMAIN ents THEN Panic
             ELSE IF HashLess(hash, ents[mid + 1].hashval)
             THEN get_address_loop(ents, hash, low, mid - 1)
             ELSE IF HashLess(ents[mid + 1].hashval, hash)
             THEN get_address_loop(ents, hash, mid + 1, high)
             ELSE [t |-> "Ok", address |-> ents[mid + 1].address]

\* (self.ents.len() - 1) as i64 : the usize subtraction overflows for an
\* empty index; unchecked it wraps to usize::MAX, which is -1 as i64
get_address_high(len) == [v |-> len - 1, ovf |-> len = 0]

get_address(ents, hash) ==
    LET high == get_address_high(Len(ents))
    IN  IF high.ovf /\ build = "debug" THEN Panic
        ELSE get_address_loop(ents, hash, 0, high.v)

\* leaf indexes non-strictly ascending by hashval; the address of an entry
\* tells which entry it is
AscendingHashes(n) ==
    {h \in [1..n -> 1..MaxHash] : \A i \in 1..(n - 1) : h[i] <= h[i + 1]}

LeafIndexes ==
    UNION {{[i \in 1..n |-> [hashval |-> <<0, h[i]>>, address |-> 8 * i]] :
              h \in AscendingHashes(n)} : n \in 0..MaxEnts}

InitAddr ==
    /\ DirIdle
    /\ sb = DirSb
    /\ image = <<>>
    /\ crashed = FALSE
    /\ rl = NoRet
    /\ el = NoRet
    /\ file = IdleFile
    /\ rret = NoRet
    /\ ck = NoRet
    /\ attr = NoRet
    /\ aret = NoRet
    /\ blkpos = NoRet
    /\ md = NoRet
    /\ build \in {"debug", "release"}
    /\ \E e \in LeafIndexes, h \in 0..(MaxHash + 1) :
          ga = [ents |-> e, hash |-> <<0, h>>, r |-> NoRet]

GetAddress ==
    /\ ~crashed
    /\ ga.r = NoRet
    /\ LET r == get_address(ga.ents, ga.hash)
       IN  /\ ga' = [ga EXCEPT !.r = r]
           /\ crashed' = (r.t = "Panic")
    /\ UNCHANGED <<sb, image, layout, inodes, entries, leaf, block_cache, full,
                   fullLast, rk, res, resLast, lret, file, rret, ck, build,
                   attr, aret, blkpos, md, el, rl>>

NextAddr == GetAddress

SpecAddr == InitAddr /\ [][NextAddr]_vars

-----------------------------------------------------------------------------
(* The byte offset a reader seeks to for a filesystem block                *)

\* log2 of the largest allocation group size of the generated geometries
MaxAgBlkLog == 3
\* the largest allocation group index of a generated block
MaxAgNo == 2

\* AttrBtree: blk * u64::from(super_block.sb_blocksize)
AttrBtree_offset(blk) == blk * sb.sb_blocksize

\* AttrNode::read_leaf: sb.fsb_to_offset(fsblock)
AttrNode_leaf_offset(fsblock) == fsb_to_offset(fsblock)

\* geometries: agblocks in (2^(agblklog-1), 2^agblklog]
Geometries ==
    {[sb_blocksize |-> fileBlockSize, sb_blocklog |-> FileBlockLog,
      sb_dirblklog |-> 0, sb_agblklog |-> al, sb_agblocks |-> ab] :
        al \in 1..MaxAgBlkLog, ab \in 2..(2 ^ MaxAgBlkLog)}

GeometryOK(g) ==
    g.sb_agblocks <= 2 ^ g.sb_agblklog /\ 2 ^ g.sb_agblklog < 2 * g.sb_agblocks

InitOffset ==
    /\ DirIdle
    /\ image = <<>>
    /\ crashed = FALSE
    /\ rl = NoRet
    /\ el = NoRet
    /\ file = IdleFile
    /\ rret = NoRet
    /\ ck = NoRet
    /\ ga = NoRet
    /\ attr = NoRet
    /\ aret = NoRet
    /\ build = "release"
    /\ md = NoRet
    /\ sb \in Geometries
    /\ GeometryOK(sb)
    /\ \E agno \in 0..MaxAgNo, agbno \in 0..(2 ^ MaxAgBlkLog - 1) :
          /\ agbno < sb.sb_agblocks
          /\ blkpos = [fsb |-> agno * (2 ^ sb.sb_agblklog) + agbno, by |-> "none",
                    offset |-> 0]

Seek(by, offset) ==
    /\ blkpos.by = "none"
    /\ blkpos' = [blkpos EXCEPT !.by = by, !.offset = offset]
    /\ UNCHANGED <<sb, image, layout, inodes, entries, leaf, block_cache, full,
                   fullLast, rk, res, resLast, lret, crashed, file, rret, ck,
                   build, ga, attr, aret, md, el, rl>>

\* Dir2Data::from(buf_reader, superblock, start_block)
SeekDir2Data == Seek("Dir2Data", Dir2Data_from(sb, blkpos.fsb).offset)
\* the node and leaf reads of AttrBtree
SeekAttrBtree == Seek("AttrBtree", AttrBtree_offset(blkpos.fsb))
\* the leaf read of AttrNode
SeekAttrNode == Seek("AttrNode", AttrNode_leaf_offset(blkpos.fsb))

NextOffset == SeekDir2Data \/ SeekAttrBtree \/ SeekAttrNode

SpecOffset == InitOffset /\ [][NextOffset]_vars

-----------------------------------------------------------------------------
(* AttrNode::map_dblock                                                    *)


\* self.bmx.partition_point(|rec| rec.br_startoff <= dblock), bmx sorted
partition_point(bmx, dblock) ==
    Cardinality({j \in 1..Len(bmx) : bmx[j].br_startoff <= dblock})

\* `&self.bmx[i - 1]` is evaluated before the assertion: for i = 0 the
\* subtraction overflows (checked build) or the index usize::MAX is out of
\* bounds (unchecked build)
map_dblock(bmx, dblock) ==
    LET i == partition_point(bmx, dblock)
    IN  IF i = 0
        THEN (IF build = "debug" THEN PanicMsg("attempt to subtract with overflow")
              ELSE PanicMsg("index out of bounds"))
        ELSE IF ~(bmx[i].br_startoff <= dblock
                  /\ bmx[i].br_startoff + bmx[i].br_blockcount > dblock)
        THEN PanicMsg("dblock not found")
        ELSE [t |-> "Ok", v |-> bmx[i].br_startblock + (dblock - bmx[i].br_startoff)]

InitMap ==
    /\ DirIdle
    /\ sb = FileSb
    /\ image = <<>>
    /\ crashed = FALSE
    /\ rl = NoRet
    /\ el = NoRet
    /\ file = IdleFile
    /\ rret = NoRet
    /\ ck = NoRet
    /\ ga = NoRet
    /\ attr = NoRet
    /\ aret = NoRet
    /\ blkpos = NoRet
    /\ build \in {"debug", "release"}
    /\ \E x \in ExtentLists, d \in 0..(MaxFileBlocks + 1) :
          /\ ExtentsOK(x)
          /\ md = [bmx |-> x, dblock |-> d, r |-> NoRet]

MapDblock ==
    /\ ~crashed
    /\ md.r = NoRet
    /\ LET r == map_dblock(md.bmx, md.dblock)
       IN  /\ md' = [md EXCEPT !.r = r]
           /\ crashed' = (r.t = "Panic")
    /\ UNCHANGED <<sb, image, layout, inodes, entries, leaf, block_cache, full,
                   fullLast, rk, res, resLast, lret, file, rret, ck, build,
                   ga, attr, aret, blkpos, el, rl>>

NextMap == MapDblock

SpecMap == InitMap /\ [][NextMap]_vars

-----------------------------------------------------------------------------
(* Attribute forks in node and btree shape                                 *)
(*                                                                         *)
(* attr.disk maps the byte offset of a block of the image to its content:  *)
(* [kind |-> "node", btree] , [kind |-> "leaf", forw, entries] or          *)
(* [kind |-> "junk"]; attr.bmx maps directory blocks to filesystem blocks. *)
(* Directory block 0 is the root intermediate node (level 1), the leaves   *)
(* are chained by forw in hash order.                                      *)

ENOATTR == 87

\* the block of the image at byte offset off
attr_block_at(off) ==
    IF off \in DOMAIN attr.disk THEN attr.disk[off] ELSE [kind |-> "none"]

\* decode_from::<AttrLeafblock> / AttrLeafblock::from at byte offset off
decode_leaf(off) ==
    IF attr_block_at(off).kind = "leaf"
    THEN [ok |-> TRUE, leaf |-> attr_block_at(off)]
    ELSE [ok |-> FALSE, leaf |-> [kind |-> "none"]]

\* XfsDa3Intnode::from at byte offset off
decode_node(off) ==
    IF attr_block_at(off).kind = "node"
    THEN [ok |-> TRUE, node |-> attr_block_at(off)]
    ELSE [ok |-> FALSE, node |-> [kind |-> "none"]]

\* XfsDa3Intnode::first_block: the leftmost lf directory-block number
first_block(node) == node.btree[1].before

\* XfsDa3Intnode::lookup: the child with the smallest key >= hash
node_lookup(node, hash) ==
    LET below == Cardinality({i \in 1..Len(node.btree) :
                                 HashLess(node.btree[i].hashval, hash)})
    IN  IF below < Len(node.btree)
        THEN [t |-> "Ok", v |-> node.btree[below + 1].before]
        ELSE Err(ENOENT)

\* BtreeRoot::map_block: the extent B+ tree holds the mapping of attr.bmx
btree_map_block(dblock) ==
    LET i == partition_point(attr.bmx, dblock)
    IN  IF i > 0 /\ dblock < attr.bmx[i].br_startoff + attr.bmx[i].br_blockcount
        THEN [t |-> "Ok",
              v |-> attr.bmx[i].br_startblock + (dblock - attr.bmx[i].br_startoff)]
        ELSE Err(ENOENT)

\* AttrLeafblock::get_total_size: namelen + 1 for every entry
RECURSIVE leaf_total_size(_, _)
leaf_total_size(lf, i) ==
    IF i > Len(lf.entries) THEN 0
    ELSE Len(lf.entries[i].name) + 1 + leaf_total_size(lf, i + 1)

\* AttrLeafblock::list: every name followed by a NUL
RECURSIVE leaf_list(_, _)
leaf_list(lf, i) ==
    IF i > Len(lf.entries) THEN <<>>
    ELSE lf.entries[i].name \o <<0>> \o leaf_list(lf, i + 1)

\* the first entry of the lf with the hash, 0 when there is none
leaf_find(lf, hash) ==
    LET hits == {i \in 1..Len(lf.entries) : lf.entries[i].hashval = hash}
    IN  IF hits = {} THEN 0 ELSE CHOOSE i \in hits : \A j \in hits : i <= j

\* AttrLeafblock::get(reader, hash, map) -> Result<Vec<u8>, i32>
leaf_get(lf, hash) ==
    IF leaf_find(lf, hash) = 0 THEN Err(ENOATTR)
    ELSE [t |-> "Ok", data |-> lf.entries[leaf_find(lf, hash)].value]

\* AttrLeafblock::get(reader, sb, hash, leaf_offset, map) -> Vec<u8>: there
\* is no error value to return on a miss (attr.leafMiss: what it does then)
leaf_get_vec(lf, hash) ==
    IF leaf_find(lf, hash) = 0
    THEN (IF attr.leafMiss = "panic" THEN PanicMsg("entry not found")
          ELSE [t |-> "Ok", data |-> <<>>])
    ELSE [t |-> "Ok", data |-> lf.entries[leaf_find(lf, hash)].value]

\* AttrLeafblock::get_size(reader, hash, leaf_offset) -> Result<u32, i32>
leaf_get_size(lf, hash) ==
    IF leaf_find(lf, hash) = 0 THEN Err(ENOATTR)
    ELSE [t |-> "Ok", v |-> Len(lf.entries[leaf_find(lf, hash)].value)]

\* lf.entries.last().map(|e| e.hashval) == Some(hash)
last_hash_is(lf, hash) ==
    Len(lf.entries) > 0 /\ lf.entries[Len(lf.entries)].hashval = hash


(* AttrNode: st = [leaves, reads, offs] is the leaf cache, the number of   *)
(* times each directory block was decoded, and the offsets sought so far.  *)

\* matches!(entry, Entry::Vacant(_)), here never finding a cached leaf
cache_vacant_always(leaves, dblock) == TRUE

\* matches!(entry, Entry::Vacant(_))
cache_vacant(leaves, dblock) == dblock \notin DOMAIN leaves

\* AttrNode::read_leaf
read_leaf(st, dblock) ==
    IF ~cache_vacant(st.leaves, dblock)
    THEN [t |-> "Ok", lf |-> st.leaves[dblock], st |-> st]
    ELSE LET fsblock == map_dblock(attr.bmx, dblock)
         IN  IF fsblock.t = "Panic" THEN [t |-> "Panic", msg |-> fsblock.msg, st |-> st]
             ELSE LET leaf_offset == AttrNode_leaf_offset(fsblock.v)
                      d == decode_leaf(leaf_offset)
                      sought == [st EXCEPT !.offs = Append(@, leaf_offset)]
                  IN  IF ~d.ok
                      THEN [t |-> "Panic", msg |-> "called unwrap on an Err value",
                            st |-> sought]
                      ELSE [t |-> "Ok", lf |-> d.leaf,
                            st |-> [sought EXCEPT
                                      !.leaves = (dblock :> d.leaf) @@ @,
                                      !.reads = [@ EXCEPT ![dblock] = @ + 1]]]

\* while dablk != 0 { read_leaf(dablk).unwrap(); ...; dablk = leaf.hdr.info.forw }
RECURSIVE AttrNode_walk(_, _, _)
AttrNode_walk(st, dablk, visited) ==
    IF dablk = 0 THEN [t |-> "Ok", st |-> st, visited |-> visited]
    ELSE LET r == read_leaf(st, dablk)
         IN  IF r.t = "Panic" THEN [t |-> "Panic", msg |-> r.msg, st |-> r.st]
             ELSE AttrNode_walk(r.st, r.lf.forw, Append(visited, r.lf))

\* total_size += leaf.get_total_size() over the leaves visited
RECURSIVE sum_total_size(_, _)
sum_total_size(visited, i) ==
    IF i > Len(visited) THEN 0
    ELSE leaf_total_size(visited[i], 1) + sum_total_size(visited, i + 1)

\* leaf.list(&mut list) over the leaves visited
RECURSIVE concat_list(_, _)
concat_list(visited, i) ==
    IF i > Len(visited) THEN <<>>
    ELSE leaf_list(visited[i], 1) \o concat_list(visited, i + 1)

\* `self.total_size == -1`, here never taking the size as computed
total_size_unset_always(total_size) == TRUE

\* `if self.total_size == -1`: the size has not been computed yet
total_size_unset(total_size) == total_size = 0 - 1

\* one more walk of the leaf chain by get_total_size, counted up to 2
walked(st) == [st EXCEPT !.walks = IF @ < 2 THEN @ + 1 ELSE 2]

\* AttrNode::get_total_size
AttrNode_get_total_size(st, total_size) ==
    IF total_size_unset(total_size)
    THEN LET w == AttrNode_walk(walked(st), first_block(attr.node), <<>>)
         IN  IF w.t = "Panic"
             THEN [r |-> PanicMsg(w.msg), st |-> w.st, total_size |-> total_size]
             ELSE [r |-> [t |-> "Ok", v |-> sum_total_size(w.visited, 1)],
                   st |-> w.st, total_size |-> sum_total_size(w.visited, 1)]
    ELSE [r |-> [t |-> "Ok", v |-> total_size], st |-> st, total_size |-> total_size]

\* AttrNode::list
AttrNode_list(st, total_size) ==
    LET g == AttrNode_get_total_size(st, total_size)
    IN  IF g.r.t = "Panic" THEN g
        ELSE LET w == AttrNode_walk(g.st, first_block(attr.node), <<>>)
             IN  IF w.t = "Panic"
                 THEN [r |-> PanicMsg(w.msg), st |-> w.st, total_size |-> g.total_size]
                 ELSE [r |-> [t |-> "Ok", data |-> concat_list(w.visited, 1)],
                       st |-> w.st, total_size |-> g.total_size]

\* AttrNode::get
AttrNode_get(st, total_size, name) ==
    LET hash == hashname(name)
        dablk == node_lookup(attr.node, hash)
    IN  IF dablk.t = "Err"
        THEN [r |-> Err(IF dablk.errno = ENOENT THEN ENOATTR ELSE dablk.errno),
              st |-> st, total_size |-> total_size]
        ELSE LET l == read_leaf(st, dablk.v)
             IN  IF l.t = "Panic"
                 THEN [r |-> PanicMsg(l.msg), st |-> l.st, total_size |-> total_size]
                 ELSE [r |-> leaf_get(l.lf, hash), st |-> l.st,
                       total_size |-> total_size]


(* AttrBtree: every operation reads the root node anew; offs are the       *)
(* offsets sought.                                                         *)

\* map_block(0), seek(blk * sb_blocksize), XfsDa3Intnode::from
AttrBtree_read_root ==
    LET blk == btree_map_block(0)
    IN  IF blk.t = "Err" THEN [t |-> "Err", errno |-> blk.errno, offs |-> <<>>]
        ELSE LET n == decode_node(AttrBtree_offset(blk.v))
             IN  IF ~n.ok
                 THEN [t |-> "Panic", msg |-> "bad magic",
                       offs |-> <<AttrBtree_offset(blk.v)>>]
                 ELSE [t |-> "Ok", node |-> n.node,
                       offs |-> <<AttrBtree_offset(blk.v)>>]

\* while leaf.hdr.info.forw != 0 { map_block(forw).unwrap(); seek; from }
RECURSIVE AttrBtree_walk(_, _, _)
AttrBtree_walk(lf, offs, visited) ==
    IF lf.forw = 0 THEN [t |-> "Ok", offs |-> offs, visited |-> visited]
    ELSE LET lfblk == btree_map_block(lf.forw)
         IN  IF lfblk.t = "Err"
             THEN [t |-> "Panic", msg |-> "called unwrap on an Err value", offs |-> offs]
             ELSE LET lfofs == AttrBtree_offset(lfblk.v)
                      d == decode_leaf(lfofs)
                  IN  IF ~d.ok
                      THEN [t |-> "Panic", msg |-> "bad magic",
                            offs |-> Append(offs, lfofs)]
                      ELSE AttrBtree_walk(d.leaf, Append(offs, lfofs),
                                          Append(visited, d.leaf))

\* the root, its first_block, and the chain of leaves from there
AttrBtree_chain ==
    LET root == AttrBtree_read_root
    IN  IF root.t = "Err"
        THEN [t |-> "Panic", msg |-> "called unwrap on an Err value", offs |-> root.offs]
        ELSE IF root.t = "Panic" THEN root
        ELSE LET lfblk0 == first_block(root.node)
                 leaf_offset == AttrBtree_offset(lfblk0)
                 d == decode_leaf(leaf_offset)
             IN  IF ~d.ok
                 THEN [t |-> "Panic", msg |-> "bad magic",
                       offs |-> Append(root.offs, leaf_offset)]
                 ELSE AttrBtree_walk(d.leaf, Append(root.offs, leaf_offset),
                                     <<d.leaf>>)

\* AttrBtree::get_total_size
AttrBtree_get_total_size(total_size) ==
    IF total_size_unset(total_size)
    THEN LET w == AttrBtree_chain
         IN  IF w.t = "Panic"
             THEN [r |-> PanicMsg(w.msg), offs |-> w.offs, total_size |-> total_size,
                   walks |-> 1]
             ELSE [r |-> [t |-> "Ok", v |-> sum_total_size(w.visited, 1)],
                   offs |-> w.offs, total_size |-> sum_total_size(w.visited, 1),
                   walks |-> 1]
    ELSE [r |-> [t |-> "Ok", v |-> total_size], offs |-> <<>>,
          total_size |-> total_size, walks |-> 0]

\* AttrBtree::list
AttrBtree_list(total_size) ==
    LET g == AttrBtree_get_total_size(total_size)
    IN  IF g.r.t = "Panic" THEN g
        ELSE LET w == AttrBtree_chain
             IN  IF w.t = "Panic"
                 THEN [r |-> PanicMsg(w.msg), offs |-> g.offs \o w.offs,
                       total_size |-> g.total_size, walks |-> g.walks]
                 ELSE [r |-> [t |-> "Ok", data |-> concat_list(w.visited, 1)],
                       offs |-> g.offs \o w.offs, total_size |-> g.total_size,
                       walks |-> g.walks]

\* AttrBtree::get
AttrBtree_get(name) ==
    LET hash == hashname(name)
        root == AttrBtree_read_root
    IN  IF root.t = "Err" THEN [r |-> Err(root.errno), offs |-> root.offs]
        ELSE IF root.t = "Panic" THEN [r |-> PanicMsg(root.msg), offs |-> root.offs]
        ELSE LET blk == node_lookup(root.node, hash)
             IN  IF blk.t = "Err" THEN [r |-> Err(blk.errno), offs |-> root.offs]
                 ELSE LET leaf_offset == AttrBtree_offset(blk.v)
                          d == decode_leaf(leaf_offset)
                      IN  IF ~d.ok
                          THEN [r |-> PanicMsg("bad magic"),
                                offs |-> Append(root.offs, leaf_offset)]
                          ELSE [r |-> leaf_get_vec(d.leaf, hash),
                                offs |-> Append(root.offs, leaf_offset)]

\* the loop of AttrBtree::get_size, the reader standing at byte offset at
RECURSIVE AttrBtree_get_size_loop(_, _, _)
AttrBtree_get_size_loop(at, hash, offs) ==
    LET d == decode_leaf(at)
    IN  IF ~d.ok THEN [r |-> PanicMsg("bad magic"), offs |-> offs]
        ELSE LET l == leaf_get_size(d.leaf, hash)
             IN  IF l.t = "Ok" THEN [r |-> l, offs |-> offs]
                 ELSE IF l.errno = ENOATTR /\ last_hash_is(d.leaf, hash)
                 THEN LET next_leaf_fsblock == btree_map_block(d.leaf.forw)
                      IN  IF next_leaf_fsblock.t = "Err"
                          THEN [r |-> Err(next_leaf_fsblock.errno), offs |-> offs]
                          ELSE AttrBtree_get_size_loop(
                                   AttrBtree_offset(next_leaf_fsblock.v), hash,
                                   Append(offs, AttrBtree_offset(next_leaf_fsblock.v)))
                 ELSE [r |-> Err(l.errno), offs |-> offs]

\* AttrBtree::get_size
AttrBtree_get_size(name) ==
    LET hash == hashname(name)
        root == AttrBtree_read_root
    IN  IF root.t = "Err" THEN [r |-> Err(root.errno), offs |-> root.offs]
        ELSE IF root.t = "Panic" THEN [r |-> PanicMsg(root.msg), offs |-> root.offs]
        ELSE LET blk == node_lookup(root.node, hash)
             IN  IF blk.t = "Err"
                 THEN [r |-> Err(IF blk.errno = ENOENT THEN ENOATTR ELSE blk.errno),
                       offs |-> root.offs]
                 ELSE AttrBtree_get_size_loop(AttrBtree_offset(blk.v), hash,
                          Append(root.offs, AttrBtree_offset(blk.v)))


(* Attribute forks of the model                                            *)

MaxAttrs == 3
MaxLeaves == 2

\* the i-th attribute name in hash order; the 2nd and 3rd share a hash
AttrName(i) ==
    IF i = 1 THEN <<97>> ELSE IF i = 2 THEN <<2, 1>>
    ELSE IF i = 3 THEN <<3, 129>> ELSE <<4, i>>

AttrValue(i) == [j \in 1..i |-> 200 + i]

AttrEntry(i) ==
    [hashval |-> hashname(AttrName(i)), name |-> AttrName(i), value |-> AttrValue(i)]

\* the leaf holding attribute i when the leaves are cut after the indexes in cuts
LeafOf(i, cuts) == 1 + Cardinality({c \in cuts : c < i})

RECURSIVE LeafEntries(_, _, _, _)
LeafEntries(j, cuts, i, n) ==
    IF i > n THEN <<>>
    ELSE (IF LeafOf(i, cuts) = j THEN <<AttrEntry(i)>> ELSE <<>>)
         \o LeafEntries(j, cuts, i + 1, n)

\* leaf j of k: directory block j, forw to j + 1, 0 on the last leaf
LeafBlock(j, k, cuts, n) ==
    [kind |-> "leaf", forw |-> IF j < k THEN j + 1 ELSE 0,
     entries |-> LeafEntries(j, cuts, 1, n)]

\* the root: one key per leaf, the last hash of the leaf
RootNode(k, cuts, n) ==
    [kind |-> "node",
     btree |-> [j \in 1..k |->
                  [hashval |-> LeafBlock(j, k, cuts, n).entries[
                                   Len(LeafBlock(j, k, cuts, n).entries)].hashval,
                   before |-> j]]]

\* where the fork lies: "same" maps leaf j to filesystem block j of AG 0 and
\* the root behind the leaves, "shifted" maps block d to d + 1 of AG 0,
\* "ag1" maps block d to block d of AG 1
Placements == {"same", "shifted", "ag1"}

ForkBmx(p, k) ==
    IF p = "same"
    THEN <<[br_startoff |-> 0, br_startblock |-> k + 1, br_blockcount |-> 1],
           [br_startoff |-> 1, br_startblock |-> 1, br_blockcount |-> k]>>
    ELSE IF p = "shifted"
    THEN <<[br_startoff |-> 0, br_startblock |-> 1, br_blockcount |-> k + 1]>>
    ELSE <<[br_startoff |-> 0, br_startblock |-> 2 ^ FileAgBlkLog,
            br_blockcount |-> k + 1]>>

ForkFsblock(p, k, d) ==
    IF p = "same" THEN (IF d = 0 THEN k + 1 ELSE d)
    ELSE IF p = "shifted" THEN d + 1 ELSE 2 ^ FileAgBlkLog + d

ForkOffset(p, k, d) ==
    ((ForkFsblock(p, k, d) \div (2 ^ FileAgBlkLog)) * FileAgBlocks
     + (ForkFsblock(p, k, d) % (2 ^ FileAgBlkLog))) * fileBlockSize

\* the block of the image at an offset of the fork; junk replaces leaf `bad`
ForkDisk(p, k, cuts, n, bad) ==
    [off \in {ForkOffset(p, k, d) : d \in 0..k} |->
        LET d == CHOOSE e \in 0..k : ForkOffset(p, k, e) = off
        IN  IF d = 0 THEN RootNode(k, cuts, n)
            ELSE IF d = bad THEN [kind |-> "junk"]
            ELSE LeafBlock(d, k, cuts, n)]

NoLeaves == [d \in {} |-> NoRet]

Fork(p, cuts, n, bad, miss) ==
    LET k == Cardinality(cuts) + 1
    IN  [disk |-> ForkDisk(p, k, cuts, n, bad), bmx |-> ForkBmx(p, k),
         node |-> RootNode(k, cuts, n), nleaves |-> k, leafMiss |-> miss,
         n_total |-> 0 - 1, b_total |-> 0 - 1, n_walks |-> 0, b_walks |-> 0,
         leaves |-> NoLeaves, reads |-> [d \in 1..k |-> 0]]

Forks ==
    UNION {{Fork(p, cuts, n, bad, miss) :
                p \in Placements,
                cuts \in {c \in SUBSET (1..(n - 1)) : Cardinality(c) < MaxLeaves},
                bad \in {0, MaxLeaves},
                miss \in {"panic", "empty"}} :
           n \in {MaxAttrs - 1, MaxAttrs}}

\* names asked for: the stored ones, one between two keys, one above all keys
AttrQueries == {AttrName(i) : i \in 1..MaxAttrs} \cup {<<99>>, <<7, 7>>}

InitAttr ==
    /\ DirIdle
    /\ sb = FileSb
    /\ image = <<>>
    /\ crashed = FALSE
    /\ rl = NoRet
    /\ el = NoRet
    /\ file = IdleFile
    /\ rret = NoRet
    /\ ck = NoRet
    /\ ga = NoRet
    /\ blkpos = NoRet
    /\ md = NoRet
    /\ build = "release"
    /\ attr \in Forks
    /\ aret = NoRet

AttrFrame ==
    UNCHANGED <<sb, image, layout, inodes, entries, leaf, block_cache, full,
                fullLast, rk, res, resLast, lret, file, rret, ck, build,
                ga, blkpos, md, el, rl>>

NodeView ==
    [leaves |-> attr.leaves, reads |-> attr.reads, offs |-> <<>>,
     walks |-> attr.n_walks]

NodeDone(op, name, o) ==
    /\ attr' = [attr EXCEPT !.leaves = o.st.leaves, !.reads = o.st.reads,
                            !.n_total = o.total_size, !.n_walks = o.st.walks]
    /\ aret' = [view |-> "node", op |-> op, name |-> name, r |-> o.r,
                offs |-> o.st.offs]
    /\ crashed' = (o.r.t = "Panic")
    /\ AttrFrame

\* get and get_size take &self: total_size stays as it is
BtreeKept(o) ==
    [r |-> o.r, offs |-> o.offs, total_size |-> attr.b_total, walks |-> 0]

BtreeDone(op, name, o) ==
    /\ attr' = [attr EXCEPT !.b_total = o.total_size,
                            !.b_walks = IF @ + o.walks < 2 THEN @ + o.walks ELSE 2]
    /\ aret' = [view |-> "btree", op |-> op, name |-> name, r |-> o.r,
                offs |-> o.offs]
    /\ crashed' = (o.r.t = "Panic")
    /\ AttrFrame

NodeGetTotalSize ==
    /\ ~crashed
    /\ NodeDone("get_total_size", <<>>, AttrNode_get_total_size(NodeView, attr.n_total))

NodeList ==
    /\ ~crashed
    /\ NodeDone("list", <<>>, AttrNode_list(NodeView, attr.n_total))

NodeGet(name) ==
    /\ ~crashed
    /\ NodeDone("get", name, AttrNode_get(NodeView, attr.n_total, name))

BtreeGetTotalSize ==
    /\ ~crashed
    /\ BtreeDone("get_total_size", <<>>, AttrBtree_get_total_size(attr.b_total))

BtreeList ==
    /\ ~crashed
    /\ BtreeDone("list", <<>>, AttrBtree_list(attr.b_total))

BtreeGet(name) ==
    /\ ~crashed
    /\ BtreeDone("get", name, BtreeKept(AttrBtree_get(name)))

BtreeGetSize(name) ==
    /\ ~crashed
    /\ BtreeDone("get_size", name, BtreeKept(AttrBtree_get_size(name)))

(* Decoding an inode core: di_magic, di_format and di_aformat as read    *)
(* from the image.                                                         *)

XFS_DINODE_MAGIC == 18766

\* XfsDinodeFmt::decode: from_u8(discriminant).expect("Unknown dinode fmt")
XfsDinodeFmt_decode(discriminant) ==
    IF discriminant \in 0..5 THEN [t |-> "Ok", v |-> discriminant]
    ELSE PanicMsg("Unknown dinode fmt")

\* DinodeCore::sanity: assert_eq!(self.di_magic, XFS_DINODE_MAGIC, ..)
DinodeCore_sanity(di_magic) ==
    IF di_magic = XFS_DINODE_MAGIC THEN [t |-> "Ok"]
    ELSE PanicMsg("Agi magic number is invalid")

\* the derived decoder of DinodeCore over its fields in order, then sanity()
DinodeCore_decode(di_magic, di_format, di_aformat) ==
    IF XfsDinodeFmt_decode(di_format).t = "Panic" THEN XfsDinodeFmt_decode(di_format)
    ELSE IF XfsDinodeFmt_decode(di_aformat).t = "Panic"
    THEN XfsDinodeFmt_decode(di_aformat)
    ELSE DinodeCore_sanity(di_magic)

InodeMagics == {XFS_DINODE_MAGIC, 0}
InodeFormats == {1, 5, 6}

DecodeInode(di_magic, di_format, di_aformat) ==
    /\ ~crashed
    /\ aret' = [view |-> "inode", op |-> "decode",
                input |-> [di_magic |-> di_magic, di_format |-> di_format,
                           di_aformat |-> di_aformat],
                r |-> DinodeCore_decode(di_magic, di_format, di_aformat)]
    /\ crashed' = (DinodeCore_decode(di_magic, di_format, di_aformat).t = "Panic")
    /\ UNCHANGED attr
    /\ AttrFrame

NextAttr ==
    \/ NodeGetTotalSize
    \/ NodeList
    \/ \E name \in AttrQueries : NodeGet(name)
    \/ BtreeGetTotalSize
    \/ BtreeList
    \/ \E name \in AttrQueries : BtreeGet(name)
    \/ \E name \in AttrQueries : BtreeGetSize(name)
    \/ \E m \in InodeMagics, f \in InodeFormats, a \in InodeFormats :
          DecodeInode(m, f, a)

SpecAttr == InitAttr /\ [][NextAttr]_vars

-----------------------------------------------------------------------------
(* The length of a directory data entry: an entry of every name length,    *)
(* followed by another entry or by a free region, measured by the length   *)
(* functions and decoded.                                                  *)

\* Dir2DataEntry::get_length_from_reader, the reader standing at off
get_length_from_reader(raw, off) ==
    LET nl == decode_u8(raw, off + 8)
    IN  IF ~nl.ok THEN [ok |-> FALSE, v |-> 0]
        ELSE [ok |-> TRUE, v |-> (((nl.v + 8 + 1 + 2) + 8 - 1) \div 8) * 8]

\* Dir2DataEntry::length
Dir2DataEntry_length(name) == (((Len(name) + 8 + 1 + 2) + 8 - 1) \div 8) * 8

\* namelen: u8
NameLens == 0..255

LenName(n) == [i \in 1..n |-> 97 + (i % 26)]

\* what follows the entry in the block
Followers == {"ent", "free"}

FollowerBytes(f, off) ==
    IF f = "ent" THEN EntryBytes(InoOf(2), <<122>>, XFS_DIR3_FT_REG_FILE, off)
    ELSE UnusedBytes(16, off)

InitLen ==
    /\ DirIdle
    /\ sb = DirSb
    /\ image = <<>>
    /\ crashed = FALSE
    /\ rl = NoRet
    /\ file = IdleFile
    /\ rret = NoRet
    /\ ck = NoRet
    /\ ga = NoRet
    /\ attr = NoRet
    /\ aret = NoRet
    /\ blkpos = NoRet
    /\ md = NoRet
    /\ build \in {"debug", "release"}
    /\ \E n \in NameLens, f \in Followers :
          el = [namelen |-> n, follow |-> f,
                raw |-> EntryBytes(InoOf(1), LenName(n), XFS_DIR3_FT_REG_FILE, 0)
                        \o FollowerBytes(f, Len(EntryBytes(InoOf(1), LenName(n),
                                                         XFS_DIR3_FT_REG_FILE, 0))),
                len |-> NoRet, dec |-> NoRet]

LenFrame ==
    UNCHANGED <<sb, image, layout, inodes, entries, leaf, block_cache, full,
                fullLast, rk, res, resLast, lret, file, rret, ck, build,
                ga, attr, aret, blkpos, md, rl>>

\* the three length functions on the entry at offset 0
MeasureEntry ==
    /\ ~crashed
    /\ el.len = NoRet
    /\ el' = [el EXCEPT !.len =
                [get_length |-> get_length(el.raw, 0).v,
                 get_length_from_reader |-> get_length_from_reader(el.raw, 0).v,
                 length |-> Dir2DataEntry_length(LenName(el.namelen))]]
    /\ UNCHANGED crashed
    /\ LenFrame

\* decode::<Dir2DataEntry>(&raw[0..]).unwrap()
DecodeEntry ==
    /\ ~crashed
    /\ el.dec = NoRet
    /\ LET d == decode_Dir2DataEntry(el.raw, 0)
       IN  /\ el' = [el EXCEPT !.dec =
                       IF d.ok THEN [t |-> "Ok", consumed |-> d.consumed,
                                     tag |-> d.tag, name |-> d.name]
                       ELSE PanicMsg("attempt to subtract with overflow")]
           /\ crashed' = ~d.ok
    /\ LenFrame

NextLen == MeasureEntry \/ DecodeEntry

SpecLen == InitLen /\ [][NextLen]_vars

-----------------------------------------------------------------------------
(* The loop of File::read in 64-bit arithmetic: a u64 is held as its 64     *)
(* bits, bit i of weight 2^i, and get_extent answers with any run length.   *)

U64Bits == 0..63

\* the u64 of a number below 2^30
U64Of(n) == [i \in U64Bits |-> IF i < 30 THEN (n \div (2 ^ i)) % 2 ELSE 0]
U64Pow2(k) == [i \in U64Bits |-> IF i = k THEN 1 ELSE 0]
U64AllOnes == [i \in U64Bits |-> 1]

\* a < b as u64
u64b_less(a, b) ==
    \E i \in U64Bits : a[i] < b[i] /\ \A j \in U64Bits : j > i => a[j] = b[j]

\* v << s in u64: the bits shifted out are dropped
u64b_shl(v, s) == [i \in U64Bits |-> IF i < s THEN 0 ELSE v[i - s]]

\* the carry into bit i of a + b + cin
RECURSIVE u64b_carry(_, _, _, _)
u64b_carry(a, b, cin, i) ==
    IF i = 0 THEN cin
    ELSE IF a[i - 1] + b[i - 1] + u64b_carry(a, b, cin, i - 1) >= 2 THEN 1 ELSE 0

\* a + b in u64; ovf: the sum left 64 bits
u64b_add(a, b) ==
    [v |-> [i \in U64Bits |-> (a[i] + b[i] + u64b_carry(a, b, 0, i)) % 2],
     ovf |-> u64b_carry(a, b, 0, 64) = 1]

\* a - b in u64; ovf: the subtraction underflowed
u64b_sub(a, b) ==
    [v |-> [i \in U64Bits |->
              (a[i] + (1 - b[i])
               + u64b_carry(a, [j \in U64Bits |-> 1 - b[j]], 1, i)) % 2],
     ovf |-> u64b_less(a, b)]

\* the number a u64 below 2^30 stands for
RECURSIVE u64b_small(_, _)
u64b_small(a, i) ==
    IF i >= 30 THEN 0 ELSE a[i] * (2 ^ i) + u64b_small(a, i + 1)

\* one iteration of `while remaining_size > 0`: z, logical_block += blocks,
\* remaining_size -= z, block_offset = 0
read_iteration(logical_block, block_offset, remaining_size, blocks) ==
    LET run == u64b_sub(u64b_shl(blocks, sb.sb_blocklog), U64Of(block_offset))
        z   == IF u64b_less(run.v, U64Of(remaining_size))
               THEN u64b_small(run.v, 0) ELSE remaining_size
        lb  == u64b_add(logical_block, blocks)
    IN  IF run.ovf /\ build = "debug"
        THEN [t |-> "Panic", msg |-> "attempt to subtract with overflow"]
        ELSE IF lb.ovf /\ build = "debug"
        THEN [t |-> "Panic", msg |-> "attempt to add with overflow"]
        ELSE [t |-> "Ok", z |-> z, logical_block |-> lb.v,
              remaining_size |-> remaining_size - z]

MaxRemaining == 6

\* run lengths get_extent may answer with, in blocks
RunLengths ==
    {U64Of(0), U64Of(1), U64Of(2), U64Pow2(64 - FileBlockLog),
     U64Pow2(63), U64AllOnes}

InitRun ==
    /\ DirIdle
    /\ sb = FileSb
    /\ image = <<>>
    /\ crashed = FALSE
    /\ file = IdleFile
    /\ rret = NoRet
    /\ ck = NoRet
    /\ ga = NoRet
    /\ attr = NoRet
    /\ aret = NoRet
    /\ blkpos = NoRet
    /\ md = NoRet
    /\ el = NoRet
    /\ build \in {"debug", "release"}
    /\ \E lb \in 0..1, rem \in 1..MaxRemaining :
          rl = [logical_block |-> U64Of(lb), remaining_size |-> rem,
                blocks |-> NoRet, z |-> 0, r |-> NoRet]

\* one pass through the loop body, get_extent answering (_, blocks)
ReadIteration(blocks) ==
    /\ ~crashed
    /\ rl.remaining_size > 0
    /\ LET it == read_iteration(rl.logical_block, 0, rl.remaining_size, blocks)
       IN  /\ rl' = IF it.t = "Panic"
                    THEN [rl EXCEPT !.blocks = blocks, !.r = it]
                    ELSE [logical_block |-> it.logical_block,
                          remaining_size |-> it.remaining_size,
                          blocks |-> blocks, z |-> it.z, r |-> [t |-> "Ok"]]
           /\ crashed' = (it.t = "Panic")
    /\ UNCHANGED <<sb, image, layout, inodes, entries, leaf, block_cache, full,
                   fullLast, rk, res, resLast, lret, file, rret, ck, build,
                   ga, attr, aret, blkpos, md, el>>

NextRun == \E blocks \in RunLengths : ReadIteration(blocks)

SpecRun == InitRun /\ [][NextRun]_vars

-----------------------------------------------------------------------------
(* Properties of the directory view *)

\* the live entries on disk, in (data-block index, byte offset) order
Live == LiveEntries(layout)

\* (idx1, off1) lies before (idx2, off2)
PosLess(idx1, off1, idx2, off2) == idx1 < idx2 \/ (idx1 = idx2 /\ off1 < off2)

\* a live entry lies after position (idx, off)
LiveAfter(idx, off) ==
    \E i \in 1..Len(Live) : PosLess(idx, off, Live[i].idx, Live[i].off)

\* C1: once the enumeration from cookie 0 has ended, it ended with ENOENT
\* after returning every live entry exactly once, in (block index, offset)
\* order, free regions skipped, with the inode number and name on disk.
C1_FullEnumeration ==
    fullLast # NoRet =>
        /\ fullLast = Err(ENOENT)
        /\ Len(full) = Len(Live)
        /\ \A i \in 1..Len(full) :
              /\ full[i].name = Live[i].name
              /\ InoValue(full[i].ino) = Live[i].ino
              /\ full[i].idx = Live[i].idx
              /\ full[i].off = Live[i].off

\* C2: an enumeration restarted at the cookie of the rk-th entry of the full
\* enumeration returns the entries rk+1, rk+2, ... of the full enumeration,
\* in that order, and ends where and how the full enumeration ended.
C2_ResumeIsSuffix ==
    rk # 0 =>
        /\ Len(res) <= Len(full) - rk
        /\ \A i \in 1..Len(res) : res[i] = full[rk + i]
        /\ resLast # NoRet => (Len(res) = Len(full) - rk /\ resLast = fullLast)

\* C2 witness: a complete enumeration was resumed at the last entry of a data
\* block (the free tail of the block follows it), crossed into the next
\* block and ran to ENOENT
C2_Witness ==
    /\ rk # 0
    /\ fullLast = Err(ENOENT)
    /\ Len(full) = Len(Live)
    /\ resLast = Err(ENOENT)
    /\ Len(res) >= 1
    /\ full[rk].idx < res[1].idx

\* C3: lookup(name) succeeds when a live entry stores the name and returns
\* ENOENT when no entry does.
C3_LookupFindsStoredNames ==
    lret # NoRet =>
        IF \E i \in 1..Len(Live) : Live[i].name = lret.name
        THEN lret.r.t = "Ok"
        ELSE lret.r = Err(ENOENT)

\* C4: for every entry next returned, lookup of its name resolves to the
\* same inode number and to the same file type.
C4_LookupAgreesWithNext ==
    lret # NoRet =>
        \A i \in 1..Len(full) :
            full[i].name = lret.name =>
                /\ lret.r.t = "Ok"
                /\ lret.r.ino = full[i].ino
                /\ lret.r.kind = full[i].kind

\* C5: next returns ENOENT only when no live entry lies after the position
\* the enumeration has reached.
C5_EnoentOnlyWhenExhausted ==
    /\ fullLast = Err(ENOENT) =>
          IF full = <<>> THEN Len(Live) = 0
          ELSE ~LiveAfter(full[Len(full)].idx, full[Len(full)].off)
    /\ resLast = Err(ENOENT) =>
          IF res = <<>> THEN ~LiveAfter(full[rk].idx, full[rk].off)
          ELSE ~LiveAfter(res[Len(res)].idx, res[Len(res)].off)

\* C6: the cookie built from (idx, off) is split by a later call into the
\* same (idx, off).
C6_CookieRoundTrip ==
    (ck # NoRet /\ ck.st = "resumed") => (ck.didx = ck.idx /\ ck.doff = ck.off)

-----------------------------------------------------------------------------
(* Properties of File::read *)

\* the extent of the file that maps logical block lb
MappedBy(lb) ==
    {j \in 1..Len(file.extents) :
        /\ file.extents[j].br_startoff <= lb
        /\ lb < file.extents[j].br_startoff + file.extents[j].br_blockcount}

\* the content of logical byte p of the file: the image byte of the mapped
\* block, 0 in a hole
ExpectedByte(p) ==
    LET lb == p \div sb.sb_blocksize
    IN  IF MappedBy(lb) = {} THEN 0
        ELSE LET e == file.extents[CHOOSE j \in MappedBy(lb) : TRUE]
             IN  image[fsb_to_offset(e.br_startblock + (lb - e.br_startoff))
                       + (p % sb.sb_blocksize) + 1]

\* C8: a read at a block-aligned offset <= file size returns exactly
\* min(size, file size - offset) bytes.
C8_ReadLength ==
    (rret # NoRet /\ rret.offset % sb.sb_blocksize = 0 /\ rret.offset <= file.size) =>
        /\ rret.r.t = "Ok"
        /\ Len(rret.r.data) = u64_min(rret.size, file.size - rret.offset)

\* C9: every byte a read returns is the image byte of the mapped block the
\* logical byte lies in, or 0 when the logical byte lies in a hole.
C9_ReadContent ==
    (rret # NoRet /\ rret.r.t = "Ok") =>
        \A i \in 1..Len(rret.r.data) :
            rret.r.data[i] = ExpectedByte(rret.offset + i - 1)

\* C9 witness: a read of more than one block returned bytes of a mapped
\* extent and bytes of a hole
C9_Witness ==
    /\ rret # NoRet
    /\ rret.r.t = "Ok"
    /\ Len(rret.r.data) > sb.sb_blocksize
    /\ \E i, j \in 1..Len(rret.r.data) :
          /\ MappedBy((rret.offset + i - 1) \div sb.sb_blocksize) # {}
          /\ rret.r.data[i] # 0
          /\ MappedBy((rret.offset + j - 1) \div sb.sb_blocksize) = {}
          /\ rret.r.data[j] = 0

\* C10: a read at an offset that is not block-aligned returns the error
\* EINVAL (22) and the view stays usable.
C10_MisalignedReadIsEinval ==
    (rret # NoRet /\ rret.offset % sb.sb_blocksize # 0) =>
        (rret.r = Err(22) /\ ~crashed)

-----------------------------------------------------------------------------
(* Properties of get_address *)

\* the entries of the index whose hashval is the hash asked for
GaMatches == {i \in 1..Len(ga.ents) : ga.ents[i].hashval = ga.hash}

\* C18: get_address returns Ok(address) of an entry with hashval = hash
\* exactly when such an entry exists, and Err(ENOENT) otherwise, for every
\* index length, the empty index included.
C18_GetAddressFindsHash ==
    (ga # NoRet /\ ga.r # NoRet) =>
        IF GaMatches # {}
        THEN ga.r.t = "Ok" /\ \E i \in GaMatches : ga.ents[i].address = ga.r.address
        ELSE ga.r = Err(ENOENT)

-----------------------------------------------------------------------------
(* Properties of lookup under hash collisions *)

\* the live entries whose name has the hash of the name looked up
SameHash == {i \in 1..Len(Live) : hashname(Live[i].name) = hashname(lret.name)}

\* C16: when several leaf index entries share hashname(name), lookup returns
\* the entry whose name equals name if there is one (never an entry of
\* another name) and ENOENT once the equal-hash entries are exhausted.
C16_LookupResolvesCollisions ==
    (lret # NoRet /\ Cardinality(SameHash) >= 2) =>
        IF \E i \in SameHash : Live[i].name = lret.name
        THEN /\ lret.r.t = "Ok"
             /\ \E i \in SameHash : /\ Live[i].name = lret.name
                                    /\ InoValue(lret.r.ino) = Live[i].ino
        ELSE lret.r = Err(ENOENT)

-----------------------------------------------------------------------------
(* Properties of block positioning *)

\* C17: every read of a block given by a filesystem-block number seeks to
\* fsb_to_offset(fsb), for every AG index and every AG size.
C17_SeeksToFsbOffset ==
    (blkpos # NoRet /\ blkpos.by # "none") => blkpos.offset = fsb_to_offset(blkpos.fsb)

-----------------------------------------------------------------------------
(* Properties of map_dblock *)

\* the extents of md.bmx whose range contains md.dblock
MdContaining ==
    {j \in 1..Len(md.bmx) :
        /\ md.bmx[j].br_startoff <= md.dblock
        /\ md.dblock < md.bmx[j].br_startoff + md.bmx[j].br_blockcount}

\* C19: map_dblock(d) returns br_startblock + (d - br_startoff) of the
\* extent containing d, and when no extent contains d it returns nothing and
\* stops with the 'dblock not found' failure.
C19_MapDblock ==
    (md # NoRet /\ md.r # NoRet) =>
        IF MdContaining # {}
        THEN \E j \in MdContaining :
                md.r = [t |-> "Ok",
                        v |-> md.bmx[j].br_startblock
                              + (md.dblock - md.bmx[j].br_startoff)]
        ELSE md.r = PanicMsg("dblock not found")


\* C20: AttrNode leaf cache: every cached leaf for directory block d equals
\* the leaf decoded from the image at fsb_to_offset(map_dblock(d)), each d is
\* decoded at most once in the life of the view, and an entry once cached is
\* never evicted or replaced.
C20_LeafCacheStable ==
    /\ [](\A d \in DOMAIN attr.leaves :
             /\ attr.leaves[d]
                  = attr_block_at(fsb_to_offset(map_dblock(attr.bmx, d).v))
             /\ attr.leaves[d].kind = "leaf")
    /\ [](\A d \in DOMAIN attr.reads : attr.reads[d] <= 1)
    /\ [][\A d \in DOMAIN attr.leaves :
             d \in DOMAIN attr'.leaves /\ attr'.leaves[d] = attr.leaves[d]]_vars

\* a list served wholly from a cache of two leaves, each decoded once
C20_Witness ==
    /\ aret # NoRet
    /\ aret.view = "node" /\ aret.op = "list" /\ aret.r.t = "Ok"
    /\ aret.offs = <<>>
    /\ Cardinality(DOMAIN attr.leaves) = 2
    /\ \A d \in DOMAIN attr.leaves : attr.reads[d] = 1


\* the leaves of the fork as they lie on the image, in chain order
StoredLeaves == [d \in 1..attr.nleaves |->
                    attr_block_at(fsb_to_offset(map_dblock(attr.bmx, d).v))]

ForkSound == \A d \in 1..attr.nleaves : StoredLeaves[d].kind = "leaf"

HashStored(hash) ==
    \E d \in 1..attr.nleaves :
        \E i \in 1..Len(StoredLeaves[d].entries) :
            StoredLeaves[d].entries[i].hashval = hash

\* C11: an attribute lookup that misses (AttrNode::get, AttrBtree::get,
\* AttrBtree::get_size; the node lookup failing or the leaf holding no
\* matching entry) reports ENOATTR, never ENOENT.
C11_MissIsEnoattr ==
    (/\ aret # NoRet
     /\ aret.op \in {"get", "get_size"}
     /\ ForkSound
     /\ ~HashStored(hashname(aret.name)))
    => aret.r = Err(ENOATTR)



\* the byte offsets of the leaves of the fork, in chain order
ChainOffsets == [d \in 1..attr.nleaves |->
                    fsb_to_offset(map_dblock(attr.bmx, d).v)]

\* C12: get_total_size (AttrNode and AttrBtree) walks the chain from the
\* leftmost leaf along forw until 0, every leaf once, and returns the sum of
\* the per-leaf totals; list walks the same leaves in the same order, so its
\* listing is the leaves' listings in chain order and as long as
\* get_total_size says.
C12_ChainWalk ==
    (aret # NoRet /\ ForkSound) =>
        /\ aret.op = "get_total_size" =>
              aret.r = [t |-> "Ok", v |-> sum_total_size(StoredLeaves, 1)]
        /\ aret.op = "list" =>
              /\ aret.r = [t |-> "Ok", data |-> concat_list(StoredLeaves, 1)]
              /\ Len(aret.r.data) = sum_total_size(StoredLeaves, 1)
        /\ (aret.op = "get_total_size" /\ aret.view = "btree" /\ aret.offs # <<>>) =>
              Tail(aret.offs) = ChainOffsets
        /\ (aret.op = "get_total_size" /\ aret.view = "node"
            /\ Len(aret.offs) = attr.nleaves) =>
              aret.offs = ChainOffsets



\* the last operation met a record that does not decode
DecodeFailed ==
    /\ aret # NoRet
    /\ \/ /\ aret.op = "decode"
          /\ \/ aret.input.di_magic # XFS_DINODE_MAGIC
             \/ aret.input.di_format \notin 0..5
             \/ aret.input.di_aformat \notin 0..5
       \/ /\ aret.view = "node"
          /\ aret.op \in {"get_total_size", "list"}
          /\ ~ForkSound

\* C13: a decode failure (inode magic mismatch, unknown di_format or
\* di_aformat, an undecodable leaf) ends the affected operation with the
\* error value EIO (5) and never aborts the process.
C13_DecodeFailureIsEio ==
    DecodeFailed => (aret.r = Err(5) /\ ~crashed)


\* what a new AttrNode over the same fork answers to the last operation
AttrNodeAnswer ==
    LET fresh == [leaves |-> NoLeaves, reads |-> [d \in 1..attr.nleaves |-> 0],
                  offs |-> <<>>, walks |-> 0]
    IN  IF aret.op = "get_total_size" THEN AttrNode_get_total_size(fresh, 0 - 1)
        ELSE IF aret.op = "list" THEN AttrNode_list(fresh, 0 - 1)
        ELSE AttrNode_get(fresh, 0 - 1, aret.name)

\* C14: over forks with the same node and leaf contents and the same
\* dblock-to-fsblock mapping, AttrBtree's get_total_size, list and get return
\* what AttrNode's return (error codes included) and read the leaf blocks at
\* the same byte offsets.
C14_BtreeSameAsNode ==
    (/\ aret # NoRet
     /\ aret.view = "btree"
     /\ aret.op \in {"get_total_size", "list", "get"})
    => /\ aret.r = AttrNodeAnswer.r
       /\ (aret.op # "list" /\ aret.offs # <<>>) =>
             Tail(aret.offs) = AttrNodeAnswer.st.offs




\* the leaf the node lookup chooses for the name of the last operation
ChosenLeaf == StoredLeaves[node_lookup(attr.node, hashname(aret.name)).v]

\* C15: attribute get and get_size in node/btree shape: when the leaf chosen
\* by the node lookup has no entry for the hash and the hash equals that of
\* the leaf's last entry, the search goes on in the forward sibling; in every
\* other case, and when forw = 0, the operation ends reporting not found.
C15_CollisionContinuation ==
    (/\ aret # NoRet
     /\ aret.op \in {"get", "get_size"}
     /\ ForkSound
     /\ node_lookup(attr.node, hashname(aret.name)).t = "Ok"
     /\ leaf_find(ChosenLeaf, hashname(aret.name)) = 0)
    => IF last_hash_is(ChosenLeaf, hashname(aret.name)) /\ ChosenLeaf.forw # 0
       THEN \E i \in 1..Len(aret.offs) :
               aret.offs[i] = ChainOffsets[ChosenLeaf.forw]
       ELSE aret.r = Err(ENOATTR)



\* C21: for every name length n in 0..255 the entry length used to skip an
\* entry (get_length, get_length_from_reader, length: roundup8(n + 11)) is
\* the number of bytes the decoder of Dir2DataEntry consumes, the tag lies in
\* the last two bytes of the entry, and the following entry or free region
\* starts right after it.
C21_EntryLength ==
    (el # NoRet /\ el.dec # NoRet) =>
        /\ el.dec.t = "Ok"
        /\ el.dec.consumed = ((el.namelen + 11 + 7) \div 8) * 8
        /\ el.dec.tag = decode_u16(el.raw, el.dec.consumed - 2).v
        /\ el.dec.tag = 0
        /\ el.len # NoRet =>
              /\ el.len.get_length = el.dec.consumed
              /\ el.len.get_length_from_reader = el.dec.consumed
              /\ el.len.length = el.dec.consumed
        /\ IF el.follow = "free"
           THEN decode_u16(el.raw, el.dec.consumed).v = FREETAG
           ELSE decode_Dir2DataEntry(el.raw, el.dec.consumed).name = <<122>>



\* the dblksize bytes of the image at entries[i].offset, i counted from 0
ImageBlock(i) ==
    SubSeq(image, entries[i + 1].offset + 1, entries[i + 1].offset + dblksize)

\* C22: after any interleaving of lookup and next on one Dir2Leaf the block
\* cache is None or Some((i, raw)) with i < entries.len() and raw the
\* dblksize bytes of the image at entries[i].offset; a call that needs block
\* i while the cache holds i does not read the image, and a call that needs
\* another block replaces the cached pair before it decodes from it.
C22_BlockCache ==
    /\ block_cache.some =>
          /\ block_cache.idx < Len(entries)
          /\ block_cache.raw = ImageBlock(block_cache.idx)
    /\ \A j \in 1..Len(block_cache.trace) :
          /\ block_cache.trace[j].read = (block_cache.trace[j].held
                                            # block_cache.trace[j].need)
          /\ j < Len(block_cache.trace) =>
                block_cache.trace[j + 1].held = block_cache.trace[j].need
    /\ (~crashed /\ block_cache.trace # <<>>) =>
          /\ block_cache.some
          /\ block_cache.idx = block_cache.trace[Len(block_cache.trace)].need

\* a lookup served from the block a preceding call left in the cache, and a
\* call that replaced the cached block by another one
C22_Witness ==
    /\ lret # NoRet
    /\ lret.r.t = "Ok"
    /\ Len(block_cache.trace) = 2
    /\ block_cache.trace[1].held = block_cache.trace[1].need
    /\ ~block_cache.trace[1].read
    /\ block_cache.trace[2].read
    /\ block_cache.idx = 1


\* C23: entries[k] is the data block whose directory-block number is k: a
\* lookup of a stored name reads its data entry from the directory block at
\* index (address * 8) / dblksize of the data fork's logical address space,
\* also when the extent list has gaps between its br_startoff ranges.
C23_EntriesByDirBlock ==
    (lret # NoRet /\ ~crashed) =>
        \A j \in 1..Len(layout.blocks) :
            \A i \in 1..Len(layout.blocks[j].regions) :
                (/\ layout.blocks[j].regions[i].t = "ent"
                 /\ layout.blocks[j].regions[i].name = lret.name)
                => /\ layout.blocks[j].dbno < Len(entries)
                   /\ ImageBlock(layout.blocks[j].dbno)
                        = DataBlockBytes(layout.blocks[j])
                   /\ block_cache.some
                   /\ block_cache.idx = layout.blocks[j].dbno



\* C25: no arithmetic of File::read leaves its integer width: for every
\* aligned offset <= file size and every extent layout, a trailing hole of
\* run length u64::MAX at a logical block >= 1 included, the shift and
\* subtraction of the run length, logical_block += blocks and
\* remaining_size -= z neither overflow nor underflow.
C25_ReadArithmeticInRange ==
    (rret # NoRet /\ rret.offset % sb.sb_blocksize = 0 /\ rret.offset <= file.size) =>
        /\ rret.r # PanicMsg("attempt to add with overflow")
        /\ rret.r # PanicMsg("attempt to subtract with overflow")



\* C24: File::read makes progress whenever get_extent answers with a run
\* of at least one block: the iteration copies z >= 1 bytes and
\* remaining_size strictly decreases, so the loop ends with
\* remaining_size = 0; only a run of zero blocks stalls it.
C24_RunMakesProgress ==
    (rl # NoRet /\ rl.blocks # NoRet /\ rl.blocks # U64Of(0)) =>
        /\ rl.r.t = "Ok"
        /\ rl.z >= 1


\* the memo of one view: -1 while get_total_size has not walked the chain,
\* afterwards a size that one walk computed
MemoSound(total, walks) ==
    /\ walks = 0 => total = 0 - 1
    /\ total # 0 - 1 => (total \in Nat /\ walks = 1)

\* C26: get_total_size is memoized: total_size is -1 until the first call
\* and a value of the u32 range afterwards; every later get_total_size,
\* called directly or by list, on the same AttrNode or AttrBtree returns
\* that value and does not walk the leaf chain again.
C26_TotalSizeMemoized ==
    /\ [](attr # NoRet =>
            /\ MemoSound(attr.n_total, attr.n_walks)
            /\ MemoSound(attr.b_total, attr.b_walks)
            /\ (aret # NoRet /\ aret.op = "get_total_size" /\ aret.r.t = "Ok") =>
                  aret.r.v = IF aret.view = "node" THEN attr.n_total
                             ELSE attr.b_total)
    /\ [][attr # NoRet =>
            /\ attr.n_total # 0 - 1 =>
                  (attr'.n_total = attr.n_total /\ attr'.n_walks = attr.n_walks)
            /\ attr.b_total # 0 - 1 =>
                  (attr'.b_total = attr.b_total /\ attr'.b_walks = attr.b_walks)]_vars

\* a get_total_size answered from the memo, and a list after it
C26_Witness ==
    /\ attr # NoRet
    /\ aret # NoRet
    /\ aret.view = "btree"
    /\ aret.op = "get_total_size"
    /\ aret.r.t = "Ok"
    /\ aret.offs = <<>>
    /\ attr.b_walks = 1
    /\ attr.n_walks = 1
    /\ attr.n_total \in Nat

====
